---- MODULE Spec2Model ----
(***************************************************************************)
(* A model of the Ark restore engine (pkg/restore/restore.go): the         *)
(* resource prioritizer, the main loop over resource types, namespaces and *)
(* items, the PV restorer, and the two tiers of background tasks.          *)
(*                                                                         *)
(* Untyped documents are maps (functions on a finite set of string keys);  *)
(* an absent key is a key outside the map's domain.                        *)
(***************************************************************************)
EXTENDS Naturals, Sequences, FiniteSets, TLC

\* ------------------------------------------------------------------ bounds
\* the number of calls to external collaborators that may fail in one behaviour
MaxFaults == 1
\* the longest configured priority list the prioritizer is applied to
MaxPrio == 2

\* ------------------------------------------------------------------ maps
EmptyMap == [k \in {} |-> TRUE]
Has(m, k) == k \in DOMAIN m
Del(m, k) == [x \in (DOMAIN m) \ {k} |-> m[x]]
Put(m, k, v) == [x \in (DOMAIN m) \cup {k} |-> IF x = k THEN v ELSE m[x]]
Keep(m, ks) == [x \in (DOMAIN m) \cap ks |-> m[x]]
\* m[k] when present, else d
GetOr(m, k, d) == IF k \in DOMAIN m THEN m[k] ELSE d
Range(s) == {s[i] : i \in DOMAIN s}

\* ------------------------------------------------------------------ resource types
Namespaces == "namespaces"
PersistentVolumes == "persistentvolumes"
PersistentVolumeClaims == "persistentvolumeclaims"
Pods == "pods"
Jobs == "jobs.batch"
ServiceAccounts == "serviceaccounts"
ConfigMaps == "configmaps"

\* schema.GroupResource.String(): "resource.group", or "resource" in the core group
GRString(gr) == IF gr.group = "" THEN gr.resource ELSE gr.resource \o "." \o gr.group

\* the canonical strings the model uses, in ascending (byte-wise) string order
LexOrder ==
    << "configmaps", "jobs.batch", "namespaces", "nodes", "persistentvolumeclaims",
       "persistentvolumes", "pods", "serviceaccounts" >>
LexRank(s) == CHOOSE i \in DOMAIN LexOrder : LexOrder[i] = s
\* Go's < on the strings of LexOrder
StrLess(a, b) == LexRank(a) < LexRank(b)

\* schema.ParseGroupVersion: "v1" is the core group, "g/v" is group g
ParseGroupVersion(gv) ==
    CASE gv = "v1" -> [group |-> "", version |-> "v1"]
      [] gv = "batch/v1" -> [group |-> "batch", version |-> "v1"]
      [] gv = "batch/v1beta1" -> [group |-> "batch", version |-> "v1beta1"]

\* what the discovery helper's Resources() returns: API groups with their resources
FullDiscovery ==
    << [groupVersion |-> "v1",
        apiResources |-> << "pods", "namespaces", "persistentvolumes",
                            "persistentvolumeclaims", "serviceaccounts", "configmaps" >>],
       [groupVersion |-> "batch/v1", apiResources |-> << "jobs" >>] >>

\* every group/resource string a discovery document lists
DiscoveredSet(disc) ==
    UNION { { GRString([group |-> ParseGroupVersion(disc[i].groupVersion).group,
                        resource |-> disc[i].apiResources[j]]) :
                j \in DOMAIN disc[i].apiResources } : i \in DOMAIN disc }

\* the fully-qualified group/resource a name stands for: a short name or a bare
\* resource name is completed, a canonical name is itself
Canonical(r) ==
    CASE r = "jobs" -> "jobs.batch"
      [] r = "po" -> "pods"
      [] OTHER -> r

\* discovery.Helper.ResourceFor: a configured name resolves to its canonical
\* group/resource when discovery knows it, and fails otherwise
ResourceFor(disc, r) ==
    IF Canonical(r) \in DiscoveredSet(disc) THEN [ok |-> TRUE, gr |-> Canonical(r)]
    ELSE [ok |-> FALSE, gr |-> r]

\* collections.IncludesExcludes.ShouldInclude
ShouldInclude(ie, s) ==
    /\ s \notin ie.excludes
    /\ (ie.includes = {} \/ "*" \in ie.includes \/ s \in ie.includes)

AllIncluded == [includes |-> {}, excludes |-> {}]

\* ------------------------------------------------------------------ prioritizer
\* mutant: a priority entry discovery cannot resolve is passed over
RECURSIVE ResolvePrioritiesLenient(_, _, _, _, _)
ResolvePrioritiesLenient(disc, priorities, ie, i, acc) ==
    IF i > Len(priorities) THEN acc
    ELSE LET rf == ResourceFor(disc, priorities[i]) IN
         IF ~rf.ok \/ ~ShouldInclude(ie, rf.gr)
         THEN ResolvePrioritiesLenient(disc, priorities, ie, i + 1, acc)
         ELSE ResolvePrioritiesLenient(disc, priorities, ie, i + 1,
                  [acc EXCEPT !.ret = Append(@, rf.gr), !.set = @ \cup {rf.gr}])

\* the first loop of prioritizeResources: resolve the priorities in configured order
RECURSIVE ResolvePriorities(_, _, _, _, _)
ResolvePriorities(disc, priorities, ie, i, acc) ==
    IF i > Len(priorities) THEN acc
    ELSE LET rf == ResourceFor(disc, priorities[i]) IN
         IF ~rf.ok THEN [ok |-> FALSE, ret |-> << >>, set |-> {}]
         ELSE IF ~ShouldInclude(ie, rf.gr)
              THEN ResolvePriorities(disc, priorities, ie, i + 1, acc)
              ELSE ResolvePriorities(disc, priorities, ie, i + 1,
                       [acc EXCEPT !.ret = Append(@, rf.gr), !.set = @ \cup {rf.gr}])

\* helper.Resources() flattened in discovery order to group/resource strings
RECURSIVE FlattenDiscovery(_, _)
FlattenDiscovery(disc, i) ==
    IF i > Len(disc) THEN << >>
    ELSE [j \in DOMAIN disc[i].apiResources |->
              GRString([group |-> ParseGroupVersion(disc[i].groupVersion).group,
                        resource |-> disc[i].apiResources[j]])]
         \o FlattenDiscovery(disc, i + 1)

\* the second loop: everything discovered, admitted and not in the seen-set
RECURSIVE CollectByName(_, _, _, _)
CollectByName(all, ie, set, i) ==
    IF i > Len(all) THEN << >>
    ELSE (IF ShouldInclude(ie, all[i]) /\ all[i] \notin set THEN << all[i] >> ELSE << >>)
         \o CollectByName(all, ie, set, i + 1)

\* x put into the ascending sequence s
RECURSIVE InsertSorted(_, _)
InsertSorted(s, x) ==
    IF s = << >> THEN << x >>
    ELSE IF StrLess(x, Head(s)) THEN << x >> \o s
         ELSE << Head(s) >> \o InsertSorted(Tail(s), x)

\* mutant: byName is left in discovery order
SortByNameUnsorted(s) == s

\* sort.Slice(byName, less on String())
RECURSIVE SortByName(_)
SortByName(s) == IF s = << >> THEN << >> ELSE InsertSorted(SortByName(Tail(s)), Head(s))

prioritizeResources(disc, priorities, ie) ==
    LET p == ResolvePriorities(disc, priorities, ie, 1, [ok |-> TRUE, ret |-> << >>, set |-> {}])
    IN IF ~p.ok THEN [ok |-> FALSE, ret |-> << >>]
       ELSE [ok |-> TRUE,
             ret |-> p.ret \o SortByName(CollectByName(FlattenDiscovery(disc, 1), ie, p.set, 1))]

\* ------------------------------------------------------------------ documents
Obj(metadata, spec, status) == [metadata |-> metadata, spec |-> spec, status |-> status]

\* metadata as the API server returns it: the four kept fields plus server-set ones
Meta(name, ns, labels, annotations) ==
    [name |-> name, namespace |-> ns, labels |-> labels, annotations |-> annotations,
     uid |-> "uid-backup", resourceVersion |-> "7"]

BindCompleted == "pv.kubernetes.io/bind-completed"
BoundByController == "pv.kubernetes.io/bound-by-controller"
MirrorPodAnnotationKey == "kubernetes.io/config.mirror"
PodSnapshotAnnotation == "snapshot.ark.heptio.com/data"
BackupNameLabel == "ark.heptio.com/backup-name"
RestoreNameLabel == "ark.heptio.com/restore-name"
RestoreLabelKey == "ark-restore"

AppA == [app |-> "a"]

PVDoc(name, labels, policy) ==
    Obj(Meta(name, "", labels, EmptyMap),
        [persistentVolumeReclaimPolicy |-> policy, claimRef |-> "ns1/claim",
         storageClassName |-> "standard", volumeID |-> "vol-backup"],
        [phase |-> "Bound"])

PVCDoc(name, volumeName) ==
    Obj(Meta(name, "ns1", EmptyMap,
             Put(Put([note |-> "keep"], BindCompleted, "yes"), BoundByController, "yes")),
        [volumeName |-> volumeName, storageClassName |-> "standard"],
        [phase |-> "Bound"])

PodDoc(name, ns, labels, annotations, phase) ==
    Obj(Meta(name, ns, labels, annotations), [containers |-> "c"], [phase |-> phase])

JobDoc(name, status) == Obj(Meta(name, "ns1", EmptyMap, EmptyMap), [template |-> "t"], status)

\* the json.Marshal-ed bytes of a document, and bytes that are no JSON
Json(doc) == [json |-> doc]
Garbage == [garbage |-> TRUE]

\* the extracted backup: one entry per file, directories in ReadDir (name) order
BackupFiles ==
    << [res |-> ConfigMaps, ns |-> "ns1", file |-> "bad.json", bytes |-> Garbage],
       [res |-> ConfigMaps, ns |-> "ns1", file |-> "cm1.json",
        bytes |-> Json([metadata |-> Meta("cm1", "ns1", AppA, EmptyMap), data |-> "d1"])],
       [res |-> ConfigMaps, ns |-> "ns2", file |-> "cm2.json",
        bytes |-> Json([metadata |-> Meta("cm2", "ns2", EmptyMap, EmptyMap), data |-> "d2"])],
       [res |-> Jobs, ns |-> "ns1", file |-> "j1.json",
        bytes |-> Json(JobDoc("j1", [completionTime |-> "2018-01-01T00:00:00Z"]))],
       [res |-> Jobs, ns |-> "ns1", file |-> "j2.json",
        bytes |-> Json(JobDoc("j2", [active |-> "1"]))],
       [res |-> Jobs, ns |-> "ns1", file |-> "j3.json",
        bytes |-> Json(JobDoc("j3", [completionTime |-> ""]))],
       [res |-> Namespaces, ns |-> "", file |-> "ns1.json",
        bytes |-> Json(Obj(Meta("ns1", "", [team |-> "x"], [owner |-> "o"]),
                           [finalizers |-> "kubernetes"], [phase |-> "Active"]))],
       [res |-> PersistentVolumeClaims, ns |-> "ns1", file |-> "pvc1.json",
        bytes |-> Json(PVCDoc("pvc1", "pv1"))],
       [res |-> PersistentVolumeClaims, ns |-> "ns1", file |-> "pvc2.json",
        bytes |-> Json(PVCDoc("pvc2", "pv2"))],
       [res |-> PersistentVolumes, ns |-> "", file |-> "pv1.json",
        bytes |-> Json(PVDoc("pv1", AppA, "Delete"))],
       [res |-> PersistentVolumes, ns |-> "", file |-> "pv2.json",
        bytes |-> Json(PVDoc("pv2", AppA, "Retain"))],
       [res |-> PersistentVolumes, ns |-> "", file |-> "pv3.json",
        bytes |-> Json(PVDoc("pv3", EmptyMap, "Delete"))],
       [res |-> Pods, ns |-> "ns1", file |-> "p1.json",
        bytes |-> Json(PodDoc("p1", "ns1", AppA, EmptyMap, "Running"))],
       [res |-> Pods, ns |-> "ns1", file |-> "p2.json",
        bytes |-> Json(PodDoc("p2", "ns1", AppA, EmptyMap, "Succeeded"))],
       [res |-> Pods, ns |-> "ns1", file |-> "pm.json",
        bytes |-> Json(PodDoc("pm", "ns1", AppA, Put(EmptyMap, MirrorPodAnnotationKey, "m"),
                              "Running"))],
       [res |-> Pods, ns |-> "ns2", file |-> "p3.json",
        bytes |-> Json(PodDoc("p3", "ns2", EmptyMap, EmptyMap, "Failed"))],
       [res |-> Pods, ns |-> "ns2", file |-> "p4.json",
        bytes |-> Json(PodDoc("p4", "ns2", AppA, Put(EmptyMap, PodSnapshotAnnotation, "snap"),
                              "Running"))],
       [res |-> ServiceAccounts, ns |-> "ns1", file |-> "sa1.json",
        bytes |-> Json([metadata |-> Meta("sa1", "ns1", EmptyMap, EmptyMap),
                        secrets |-> << "s1", "s2" >>, imagePullSecrets |-> << "i1" >>])],
       [res |-> ServiceAccounts, ns |-> "ns2", file |-> "sa2.json",
        bytes |-> Json([metadata |-> Meta("sa2", "ns2", EmptyMap, EmptyMap),
                        secrets |-> << "s1" >>, imagePullSecrets |-> << >>])] >>

\* backup.Status.VolumeBackups: PV name -> snapshot descriptor
VolumeBackups ==
    [n \in {"pv3"} |-> [snapshotID |-> "snap-3", type |-> "gp2",
                         availabilityZone |-> "z1", iops |-> "100"]]

\* ------------------------------------------------------------------ archive reader
FilesOf(res, ns) == SelectSeq(BackupFiles, LAMBDA f : f.res = res /\ f.ns = ns)

\* gzipTarReader.GetResourceScope: the resource directory, then its cluster directory
GetResourceScope(res) ==
    IF \A i \in DOMAIN BackupFiles : BackupFiles[i].res # res
    THEN [scope |-> "", found |-> FALSE]
    ELSE IF \E i \in DOMAIN BackupFiles : BackupFiles[i].res = res /\ BackupFiles[i].ns = ""
         THEN [scope |-> "cluster", found |-> TRUE]
         ELSE [scope |-> "namespace", found |-> TRUE]

\* s without repeated neighbours
RECURSIVE Uniq(_)
Uniq(s) ==
    IF Len(s) < 2 THEN s
    ELSE IF s[1] = s[2] THEN Uniq(Tail(s)) ELSE << s[1] >> \o Uniq(Tail(s))

\* gzipTarReader.ListNamespaces: the namespace directories of a resource, in name order
ListNamespaces(res) ==
    LET fs == SelectSeq(BackupFiles, LAMBDA f : f.res = res /\ f.ns # "")
    IN Uniq([i \in DOMAIN fs |-> fs[i].ns])

\* gzipTarReader.ListContents: the file names of one directory
ListContents(res, ns) == LET fs == FilesOf(res, ns) IN [i \in DOMAIN fs |-> fs[i].file]

\* gzipTarReader.Get: the bytes of one file, or an error when it is absent
ArchiveGet(res, ns, file) ==
    LET fs == SelectSeq(FilesOf(res, ns), LAMBDA f : f.file = file)
    IN IF fs = << >> THEN [ok |-> FALSE, bytes |-> Garbage]
       ELSE [ok |-> TRUE, bytes |-> fs[1].bytes]

\* json.Unmarshal into an unstructured document
Unmarshal(bytes) ==
    IF Has(bytes, "json") THEN [ok |-> TRUE, obj |-> bytes.json]
    ELSE [ok |-> FALSE, obj |-> EmptyMap]

\* ------------------------------------------------------------------ selectors
NilSelector == [nil |-> TRUE, matchLabels |-> EmptyMap, valid |-> TRUE]
EmptySelector == [nil |-> FALSE, matchLabels |-> EmptyMap, valid |-> TRUE]

\* metav1.LabelSelectorAsSelector: nil selects nothing, empty selects everything
LabelSelectorAsSelector(ls) ==
    IF ls.nil THEN [ok |-> TRUE, nothing |-> TRUE, req |-> EmptyMap]
    ELSE IF ~ls.valid THEN [ok |-> FALSE, nothing |-> TRUE, req |-> EmptyMap]
         ELSE [ok |-> TRUE, nothing |-> FALSE, req |-> ls.matchLabels]

\* labels.Selector.Matches
Matches(sel, labels) ==
    /\ ~sel.nothing
    /\ \A k \in DOMAIN sel.req : Has(labels, k) /\ labels[k] = sel.req[k]

\* Restore, lines 175-183: the request's selector, nil replaced by the empty one
\* mutant: a request without a selector keeps the selector that matches nothing
BuildSelectorNoDefault(ls) == LabelSelectorAsSelector(ls)

BuildSelector(ls) == LabelSelectorAsSelector(IF ls.nil THEN EmptySelector ELSE ls)

\* unstructured GetLabels / GetAnnotations / GetName: absent reads as empty
GetLabels(obj) == IF Has(obj, "metadata") THEN GetOr(obj.metadata, "labels", EmptyMap) ELSE EmptyMap
GetAnnotations(obj) ==
    IF Has(obj, "metadata") THEN GetOr(obj.metadata, "annotations", EmptyMap) ELSE EmptyMap
GetName(obj) == IF Has(obj, "metadata") THEN GetOr(obj.metadata, "name", "") ELSE ""

\* ------------------------------------------------------------------ results
\* api.RestoreResult{}: the Ark (system), Cluster and per-namespace message lists
EmptyResult == [ark |-> << >>, cluster |-> << >>, namespaces |-> EmptyMap]
NsList(r, ns) == GetOr(r.namespaces, ns, << >>)

\* addArkError
addArkError(r, msg) == [r EXCEPT !.ark = Append(@, msg)]

\* addToResult: the cluster list when ns is empty, else the namespace's list
addToResult(r, ns, msg) ==
    IF ns = "" THEN [r EXCEPT !.cluster = Append(@, msg)]
    ELSE [r EXCEPT !.namespaces = Put(@, ns, Append(NsList(r, ns), msg))]

\* merge(a, b): b's lists appended to a's
merge(a, b) ==
    [ark |-> a.ark \o b.ark,
     cluster |-> a.cluster \o b.cluster,
     namespaces |-> [n \in (DOMAIN a.namespaces) \cup (DOMAIN b.namespaces) |->
                        NsList(a, n) \o NsList(b, n)]]

Msg(kind, res, item) == [kind |-> kind, res |-> res, item |-> item]

\* ------------------------------------------------------------------ item helpers
\* isCompleted: a Pod in phase Failed or Succeeded, a Job with a completion time
\* mutant: only succeeded Pods count as completed
isCompletedSucceededOnly(obj, res) ==
    res = Pods /\ Has(obj, "status") /\ GetOr(obj.status, "phase", "") = "Succeeded"

isCompleted(obj, res) ==
    CASE res = Pods ->
           LET phase == IF Has(obj, "status") THEN GetOr(obj.status, "phase", "") ELSE ""
           IN phase = "Failed" \/ phase = "Succeeded"
      [] res = Jobs ->
           /\ Has(obj, "status")
           /\ Has(obj.status, "completionTime")
           /\ obj.status.completionTime # ""
      [] OTHER -> FALSE

\* resetMetadataAndStatus: only name, namespace, labels and annotations stay in the
\* metadata, and the status goes; a document without metadata is an error
resetMetadataAndStatus(obj) ==
    IF ~Has(obj, "metadata") THEN [ok |-> FALSE, obj |-> obj]
    ELSE [ok |-> TRUE,
          obj |-> Del([obj EXCEPT !.metadata =
                          Keep(@, {"name", "namespace", "labels", "annotations"})],
                      "status")]

\* addRestoreLabels
addRestoreLabels(obj, restoreName, backupName) ==
    [obj EXCEPT !.metadata =
        Put(@, "labels",
            Put(Put(Put(GetLabels(obj), BackupNameLabel, backupName),
                    RestoreNameLabel, restoreName),
                RestoreLabelKey, restoreName))]

\* obj.SetNamespace / obj.SetAnnotations
SetNamespace(obj, ns) == [obj EXCEPT !.metadata = Put(@, "namespace", ns)]
SetAnnotations(obj, ann) == [obj EXCEPT !.metadata = Put(@, "annotations", ann)]

\* boolptr.IsSetToFalse on a *bool held as "nil", "true" or "false"
\* mutant: no flag counts as set to false
IsSetToFalseNever(b) == FALSE

IsSetToFalse(b) == b = "false"

\* the id of the n-th volume the block store creates
VolumeID(n) == "vol-" \o ToString(n)

\* mutant: the volume is created and the item keeps the volume id of the backup
executePVActionKeepsID(r, obj, volumes, bsFails) ==
    LET pvName == GetName(obj)
        stripped == [obj EXCEPT !.spec = Del(Del(@, "claimRef"), "storageClassName")]
    IN IF pvName = "" \/ ~Has(obj, "spec")
       THEN [ok |-> FALSE, obj |-> obj, volumes |-> volumes, called |-> FALSE]
       ELSE IF \/ IsSetToFalse(r.snapshotVolumes) \/ IsSetToFalse(r.restorePVs)
               \/ ~Has(r.volumeBackups, pvName)
            THEN [ok |-> TRUE, obj |-> stripped, volumes |-> volumes, called |-> FALSE]
            ELSE IF ~r.blockStore \/ bsFails
                 THEN [ok |-> FALSE, obj |-> stripped, volumes |-> volumes,
                       called |-> r.blockStore]
                 ELSE [ok |-> TRUE, obj |-> stripped,
                       volumes |-> Append(volumes,
                                      [id |-> VolumeID(Len(volumes) + 1), pv |-> pvName,
                                       snapshot |-> r.volumeBackups[pvName]]),
                       called |-> TRUE]

\* pvRestorer.executePVAction.  r: the restorer's fields; volumes: the volumes the
\* block store has created so far; bsFails: CreateVolumeFromSnapshot returns an error.
\* Returns the updated document, the block store's volumes and whether it was called.
executePVAction(r, obj, volumes, bsFails) ==
    LET pvName == GetName(obj)
        stripped == [obj EXCEPT !.spec = Del(Del(@, "claimRef"), "storageClassName")]
        unchanged == [ok |-> TRUE, obj |-> stripped, volumes |-> volumes, called |-> FALSE]
        failed(o) == [ok |-> FALSE, obj |-> o, volumes |-> volumes, called |-> FALSE]
    IN IF pvName = "" THEN failed(obj)
       ELSE IF ~Has(obj, "spec") THEN failed(obj)
       ELSE IF IsSetToFalse(r.snapshotVolumes) THEN unchanged
       ELSE IF IsSetToFalse(r.restorePVs) THEN unchanged
       ELSE IF ~Has(r.volumeBackups, pvName) THEN unchanged
       ELSE IF ~r.blockStore THEN failed(stripped)
       ELSE IF bsFails
            THEN [ok |-> FALSE, obj |-> stripped, volumes |-> volumes, called |-> TRUE]
            ELSE LET id == VolumeID(Len(volumes) + 1)
                 IN [ok |-> TRUE,
                     obj |-> [stripped EXCEPT !.spec = Put(@, "volumeID", id)],
                     volumes |-> Append(volumes,
                                    [id |-> id, pv |-> pvName,
                                     snapshot |-> r.volumeBackups[pvName]]),
                     called |-> TRUE]

\* a with the entries of b it does not hold yet
RECURSIVE UnionSeq(_, _)
UnionSeq(a, b) ==
    IF b = << >> THEN a
    ELSE UnionSeq(IF Head(b) \in Range(a) THEN a ELSE Append(a, Head(b)), Tail(b))

\* mergeServiceAccounts: the live account with the backed-up secrets and image pull
\* secrets it lacks
mergeServiceAccounts(fromCluster, fromBackup) ==
    [fromCluster EXCEPT
        !.secrets = UnionSeq(@, GetOr(fromBackup, "secrets", << >>)),
        !.imagePullSecrets = UnionSeq(@, GetOr(fromBackup, "imagePullSecrets", << >>))]

\* ------------------------------------------------------------------ cluster
Key(res, ns, name) == << res, ns, name >>

\* what the API server stores for a created document: it adds its own metadata
\* and a status
Stored(obj) ==
    Put([obj EXCEPT !.metadata = Put(Put(@, "uid", "uid-live"), "resourceVersion", "1")],
        "status", [phase |-> "Pending"])

\* ------------------------------------------------------------------ state
VARIABLES
    restore,     \* the Restore request (api.Restore)
    backup,      \* the Backup it restores (api.Backup)
    kr,          \* kubernetesRestorer: priorities, discovery, block store, restic factory
    actions,     \* the registered item actions
    ctx,         \* context: prioritizedResources, selector, actions, resticRestorer,
                 \* pvsToProvision, resourceWatches, existingNamespaces
    pc,          \* where Restore is: start, loop, ns, items, wait, globalwait, done, panic
    ri,          \* index of the resource type in ctx.prioritizedResources
    nsl,         \* the namespaces listed for the resource type, and the index into them
    frame,       \* the running restoreResource call: its arguments and locals
    warnings,    \* restoreFromArchive's warnings
    errs,        \* restoreFromArchive's errs
    result,      \* what Restore returned
    cluster,     \* the target cluster's objects, by resource, namespace and name
    clusterNS,   \* the target cluster's namespaces, by name
    volumes,     \* the volumes the block store created from snapshots
    rtasks,      \* per-resource-type tasks (PV readiness waits)
    gtasks,      \* whole-restore tasks (pod volume restores)
    flaky,       \* whether calls to the collaborators may fail in this behaviour
    faults,      \* collaborator calls that failed so far
    rerun,       \* TRUE in a second Restore of the same archive into the same cluster
    creates,     \* history: the Create calls of this Restore
    patches,     \* history: the Patch calls of this Restore
    ensures,     \* history: the EnsureNamespaceExists calls of this Restore
    bsCalls,     \* history: PV names passed to CreateVolumeFromSnapshot in this Restore
    lost,        \* history: warnings written to a RestoreResult nobody reads any more
    ev,          \* history: what the last step of the main loop did
    prev,        \* history: the result of the Restore before this one, and the cluster then
    ar,          \* the archive on its own: a gzipTarWriter, its bytes and a gzipTarReader
    pva,         \* executePVAction on its own: a pvRestorer, an item and what it returns
    bc,          \* the backup controller: the Backup, the controller instances, the calls
    prio         \* the prioritizer on its own: its inputs and its output

vars == << restore, backup, kr, actions, ctx, pc, ri, nsl, frame, warnings, errs, result,
           cluster, clusterNS, volumes, rtasks, gtasks, flaky, faults, rerun, creates, patches,
           ensures, bsCalls, lost, ev, prev, ar, pva, bc, prio >>

\* a call to a collaborator may return an error now
MayFail == flaky /\ faults < MaxFaults

\* ------------------------------------------------------------------ restoreResource, one item
\* The loop body of restoreResource (lines 559-796) as a pipeline over a record s:
\* the item, the call's locals and everything the body may change. stop: continue
\* with the next item; ret: return from restoreResource; used: the collaborator
\* failure f offered to this item was consumed.
ItemStart ==
    [obj |-> EmptyMap, name |-> "", path |-> "run", stop |-> FALSE, ret |-> FALSE,
     panic |-> FALSE, used |-> FALSE, prepared |-> EmptyMap, live |-> EmptyMap,
     ran |-> << >>, w |-> frame.warnings, e |-> frame.errs,
     client |-> frame.resourceClient, watch |-> frame.resourceWatch,
     pvs |-> ctx.pvsToProvision, watches |-> ctx.resourceWatches,
     cluster |-> cluster, creates |-> creates, patches |-> patches,
     volumes |-> volumes, bsCalls |-> bsCalls, rtasks |-> rtasks, gtasks |-> gtasks]

Continue(s, path) == [s EXCEPT !.stop = TRUE, !.path = path]
Return(s, path) == [s EXCEPT !.stop = TRUE, !.ret = TRUE, !.path = path]
CurFile == frame.files[frame.fi]
ItemMsg(kind) == Msg(kind, frame.resource, CurFile)

\* mutant: an item that cannot be fetched or decoded ends the resource type's items
StGetAbandons(s, f) ==
    LET g == ArchiveGet(frame.resource, frame.namespace, CurFile)
        u == Unmarshal(g.bytes)
    IN IF f = "get" \/ ~g.ok \/ ~u.ok
       THEN Return([s EXCEPT !.used = (f = "get"),
                             !.e = addToResult(@, frame.namespace, ItemMsg("getItem"))],
                   "getErr")
       ELSE [s EXCEPT !.obj = u.obj, !.name = GetName(u.obj)]

\* lines 560-571: fetch and decode
StGet(s, f) ==
    IF f = "get"
    THEN Continue([s EXCEPT !.used = TRUE,
                            !.e = addToResult(@, frame.namespace, ItemMsg("getItem"))],
                  "getErr")
    ELSE LET g == ArchiveGet(frame.resource, frame.namespace, CurFile)
             u == Unmarshal(g.bytes)
         IN IF ~g.ok
            THEN Continue([s EXCEPT !.e = addToResult(@, frame.namespace, ItemMsg("getItem"))],
                          "getErr")
            ELSE IF ~u.ok
            THEN Continue([s EXCEPT !.e = addToResult(@, frame.namespace, ItemMsg("decode"))],
                          "decodeErr")
            ELSE [s EXCEPT !.obj = u.obj, !.name = GetName(u.obj)]

\* lines 573-575: the request's label selector
StSelector(s) ==
    IF s.stop THEN s
    ELSE IF ~Matches(ctx.selector, GetLabels(s.obj)) THEN Continue(s, "labelSkip") ELSE s

\* lines 577-585: completed Pods and Jobs
StCompleted(s) ==
    IF s.stop THEN s
    ELSE IF isCompleted(s.obj, frame.resource) THEN Continue(s, "completed") ELSE s

\* lines 587-603: the resource type's client, built on the first item that needs it
StClient(s, f) ==
    IF s.stop \/ s.client THEN s
    ELSE IF f = "client"
         THEN Return([s EXCEPT !.used = TRUE, !.e = addArkError(@, ItemMsg("client"))],
                     "clientErr")
         ELSE [s EXCEPT !.client = TRUE]

\* lines 608-611: mirror pods
StMirror(s) ==
    IF s.stop THEN s
    ELSE IF frame.resource = Pods /\ GetOr(GetAnnotations(s.obj), MirrorPodAnnotationKey, "") # ""
         THEN Continue(s, "mirror")
         ELSE s

\* lines 632-649: the watch and the readiness task, on the first PV that needs them
StWatch(s, f) ==
    IF s.watch # 0 THEN s
    ELSE IF f = "watch"
         THEN Return([s EXCEPT !.used = TRUE,
                               !.e = addToResult(@, frame.namespace, ItemMsg("watch"))],
                     "watchErr")
         ELSE LET id == Len(s.watches) + 1
              IN [s EXCEPT !.watch = id,
                           !.watches = Append(@, [res |-> frame.resource, stopped |-> FALSE]),
                           !.rtasks = @ \cup {[watch |-> id, pv |-> s.name,
                                               call |-> frame.id, state |-> "waiting"]}]

\* mutant: the reclaim policy is not looked at
LeftToProvisioningAnyPolicy(obj, found) == ~found

\* lines 614-616: a PV without a snapshot whose reclaim policy is Delete
LeftToProvisioning(obj, found) ==
    /\ Has(obj, "spec") /\ Has(obj.spec, "persistentVolumeReclaimPolicy")
    /\ ~found
    /\ obj.spec.persistentVolumeReclaimPolicy = "Delete"

\* mutant: the PV is put in the provisioning set and restored all the same
ProvisionAndRestore(s) == [s EXCEPT !.pvs = @ \cup {s.name}]

\* lines 617-621: the PV is left to dynamic provisioning and not restored
Provision(s) == Continue([s EXCEPT !.pvs = @ \cup {s.name}], "provision")

\* lines 613-649: PersistentVolumes
StPV(s, f) ==
    IF s.stop \/ frame.resource # PersistentVolumes THEN s
    ELSE LET found == Has(backup.volumeBackups, s.name)
         IN IF LeftToProvisioning(s.obj, found)
            THEN Provision(s)
            ELSE LET r == executePVAction(ctx.pvRestorer, s.obj, s.volumes, f = "bs")
                     s1 == [s EXCEPT !.volumes = r.volumes,
                                     !.used = (f = "bs" /\ r.called),
                                     !.bsCalls = IF r.called THEN @ \cup {s.name} ELSE @]
                 IN IF ~r.ok
                    THEN Continue([s1 EXCEPT !.e = addToResult(@, frame.namespace,
                                                                ItemMsg("pvAction"))],
                                  "pvErr")
                    ELSE StWatch([s1 EXCEPT !.obj = r.obj], f)

\* mutant: only spec.volumeName is removed
ResetPVCVolumeOnly(obj) == [obj EXCEPT !.spec = Del(@, "volumeName")]

\* lines 661-666: the claim without its binding to a volume
ResetPVC(obj) ==
    SetAnnotations([obj EXCEPT !.spec = Del(@, "volumeName")],
                   Del(Del(GetAnnotations(obj), BindCompleted), BoundByController))

\* lines 651-668: PersistentVolumeClaims bound to a PV left to dynamic provisioning
StPVC(s) ==
    IF s.stop \/ frame.resource # PersistentVolumeClaims THEN s
    ELSE IF ~Has(s.obj, "spec")
         THEN Continue([s EXCEPT !.e = addToResult(@, frame.namespace, ItemMsg("noSpec"))],
                       "pvcErr")
         ELSE IF Has(s.obj.spec, "volumeName") /\ s.obj.spec.volumeName \in s.pvs
              THEN [s EXCEPT !.obj = ResetPVC(s.obj)]
              ELSE s

\* ItemAction.Execute of the model's actions: "update" returns the item annotated,
\* "relabel" the item with another app label, "warn" a warning, "error" an error,
\* "warnerr" both
Execute(action, obj) ==
    [obj |-> CASE action.does = "update" ->
                    SetAnnotations(obj, Put(GetAnnotations(obj), "touched", "yes"))
               [] action.does = "relabel" ->
                    [obj EXCEPT !.metadata = Put(@, "labels", Put(GetLabels(obj), "app", "b"))]
               [] OTHER -> obj,
     warning |-> action.does \in {"warn", "warnerr"},
     err |-> action.does \in {"error", "warnerr"}]

\* lines 670-693: the applicable actions, in order. A warning is recorded as
\* errors.Wrapf(err, ...), which is nil when err is nil: addToResult then calls
\* Error() on a nil error, and the restore panics. An error continues the loop
\* over the actions.
RECURSIVE StActions(_, _)
StActions(s, i) ==
    IF s.stop \/ i > Len(frame.applicableActions) THEN s
    ELSE LET action == frame.applicableActions[i] IN
         IF ~Matches(action.selector, GetLabels(s.obj)) THEN StActions(s, i + 1)
         ELSE LET x == Execute(action, s.obj)
                  s0 == [s EXCEPT !.ran = Append(@, [action |-> action, obj |-> s.obj])]
              IN
              IF x.warning /\ ~x.err
              THEN [s0 EXCEPT !.stop = TRUE, !.panic = TRUE, !.path = "panic"]
              ELSE LET s1 == IF x.warning
                             THEN [s0 EXCEPT !.w = addToResult(@, frame.namespace,
                                                               ItemMsg("prepareWarning"))]
                             ELSE s0
                   IN IF x.err
                      THEN StActions([s1 EXCEPT !.e = addToResult(@, frame.namespace,
                                                                  ItemMsg("prepare"))],
                                     i + 1)
                      ELSE StActions([s1 EXCEPT !.obj = x.obj], i + 1)

\* lines 695-710: strip the metadata and the status, set the namespace, add the labels
StPrepare(s) ==
    IF s.stop THEN s
    ELSE LET r == resetMetadataAndStatus(s.obj) IN
         IF ~r.ok
         THEN Continue([s EXCEPT !.e = addToResult(@, frame.namespace, ItemMsg("noMetadata"))],
                       "resetErr")
         ELSE LET o1 == IF frame.namespace # "" THEN SetNamespace(r.obj, frame.namespace)
                        ELSE r.obj
                  o2 == addRestoreLabels(o1, restore.name, restore.backupName)
              IN [s EXCEPT !.obj = o2, !.prepared = o2]

CreateCall(s, outcome) ==
    [res |-> frame.resource, ns |-> frame.namespace, iter |-> frame.iter, file |-> CurFile,
     name |-> s.name, obj |-> s.obj, outcome |-> outcome]

\* lines 734-766: the live object differs from the one to restore
\* mutant: a difference from the live object is recorded as an error
StConflictAsError(s, f, fromCluster) ==
    Continue([s EXCEPT !.e = addToResult(@, frame.namespace, ItemMsg("differs"))], "differs")

\* mutant: a ServiceAccount is treated like every other type
StConflictWarnOnly(s, f, fromCluster) ==
    Continue([s EXCEPT !.w = addToResult(@, frame.namespace, ItemMsg("differs"))], "differs")

StConflict(s, f, fromCluster) ==
    IF frame.resource = ServiceAccounts
    THEN LET desired == mergeServiceAccounts(fromCluster, s.obj)
             key == Key(frame.resource, frame.namespace, s.name)
         IN IF f = "merge"
            THEN Continue([s EXCEPT !.used = TRUE,
                                    !.w = addToResult(@, frame.namespace, ItemMsg("merge"))],
                          "mergeErr")
            ELSE IF f = "genpatch"
            THEN Continue([s EXCEPT !.used = TRUE,
                                    !.w = addToResult(@, frame.namespace, ItemMsg("genPatch"))],
                          "genPatchErr")
            ELSE IF desired = fromCluster THEN Continue(s, "mergeNoop")
            ELSE IF f = "patch"
            THEN Continue([s EXCEPT !.used = TRUE,
                                    !.w = addToResult(@, frame.namespace, ItemMsg("patch"))],
                          "patchErr")
            ELSE Continue([s EXCEPT
                              !.patches = @ \cup {[key |-> key, secrets |-> desired.secrets,
                                                   imagePullSecrets |-> desired.imagePullSecrets]},
                              !.cluster = [@ EXCEPT ![key] =
                                              [@ EXCEPT !.secrets = desired.secrets,
                                                        !.imagePullSecrets =
                                                            desired.imagePullSecrets]]],
                          "patched")
    ELSE Continue([s EXCEPT !.w = addToResult(@, frame.namespace, ItemMsg("differs"))],
                  "differs")

\* lines 713-774: Create, and what follows "already exists"
StCreate(s, f) ==
    IF s.stop THEN s
    ELSE LET key == Key(frame.resource, frame.namespace, s.name) IN
         IF f = "create"
         THEN Continue([s EXCEPT !.used = TRUE,
                                 !.creates = Append(@, CreateCall(s, "error")),
                                 !.e = addToResult(@, frame.namespace, ItemMsg("create"))],
                       "createErr")
         ELSE IF key \notin DOMAIN s.cluster
         THEN [s EXCEPT !.creates = Append(@, CreateCall(s, "created")),
                        !.cluster = Put(@, key, Stored(s.obj)),
                        !.path = "created"]
         ELSE LET s1 == [s EXCEPT !.creates = Append(@, CreateCall(s, "exists"))] IN
              IF f = "getlive"
              THEN Continue([s1 EXCEPT !.used = TRUE,
                                       !.w = addToResult(@, frame.namespace, ItemMsg("getLive"))],
                            "getLiveErr")
              ELSE LET r == resetMetadataAndStatus(s.cluster[key]) IN
                   IF ~r.ok
                   THEN Continue([s1 EXCEPT !.w = addToResult(@, frame.namespace,
                                                              ItemMsg("noMetadata"))],
                                 "resetLiveErr")
                   ELSE LET labels == GetLabels(s.obj)
                            fromCluster == addRestoreLabels(r.obj, labels[RestoreNameLabel],
                                                            labels[BackupNameLabel])
                            s2 == [s1 EXCEPT !.live = fromCluster]
                        IN IF fromCluster # s.obj THEN StConflict(s2, f, fromCluster)
                           ELSE Continue(s2, "same")

\* restic.GetPodSnapshotAnnotations: the annotations that name a volume snapshot
GetPodSnapshotAnnotations(obj) == Keep(GetAnnotations(obj), {PodSnapshotAnnotation})

\* mutant: a pod volume restore for every Pod the loop body gets through
StResticAnyPod(s) ==
    IF frame.resource = Pods /\ s.name # "" /\ ctx.resticRestorer /\ ~s.ret /\ ~s.panic
    THEN [s EXCEPT !.gtasks = @ \cup {[pod |-> s.name, ns |-> frame.namespace,
                                       state |-> "running"]}]
    ELSE s

\* lines 776-795: the pod volume restore of a created Pod
StRestic(s) ==
    IF s.stop THEN s
    ELSE IF /\ frame.resource = Pods
            /\ DOMAIN GetPodSnapshotAnnotations(s.obj) # {}
            /\ ctx.resticRestorer
         THEN [s EXCEPT !.gtasks = @ \cup {[pod |-> s.name, ns |-> frame.namespace,
                                            state |-> "running"]}]
         ELSE s

\* x, evaluated once
Force(x) == CHOOSE y \in {x} : TRUE

\* one pass of the loop body over the item frame.files[frame.fi]
ItemStep(f) ==
    LET s1 == Force(StGet(Force(ItemStart), f))
        s2 == Force(StMirror(Force(StClient(Force(StCompleted(Force(StSelector(s1)))), f))))
        s3 == Force(StActions(Force(StPVC(Force(StPV(s2, f)))), 1))
    IN StRestic(Force(StCreate(Force(StPrepare(s3)), f)))

\* ------------------------------------------------------------------ set-up helpers
\* getResourceIncludesExcludes: the names resolved through discovery; a name
\* discovery does not know is dropped, "*" is kept
ResolveNames(disc, names) ==
    { ResourceFor(disc, n).gr : n \in { m \in names : ResourceFor(disc, m).ok } }
        \cup (names \cap {"*"})
getResourceIncludesExcludes(disc, includes, excludes) ==
    [includes |-> ResolveNames(disc, includes), excludes |-> ResolveNames(disc, excludes)]

\* labels.Parse of the selector expressions the model's actions use
ParseSelector(expr) ==
    CASE expr = "" -> [ok |-> TRUE, nothing |-> FALSE, req |-> EmptyMap]
      [] expr = "app=a" -> [ok |-> TRUE, nothing |-> FALSE, req |-> AppA]
      [] OTHER -> [ok |-> FALSE, nothing |-> TRUE, req |-> EmptyMap]

\* resolveActions: one tuple per action, or a failure
RECURSIVE resolveActions(_, _, _)
resolveActions(acts, disc, i) ==
    IF i > Len(acts) THEN [ok |-> TRUE, resolved |-> << >>]
    ELSE LET a == acts[i]
             sel == ParseSelector(a.appliesTo.labelSelector)
             rest == resolveActions(acts, disc, i + 1)
         IN IF ~a.appliesTo.ok \/ ~sel.ok \/ ~rest.ok THEN [ok |-> FALSE, resolved |-> << >>]
            ELSE [ok |-> TRUE,
                  resolved |->
                      << [does |-> a.does,
                          resourceIncludesExcludes |->
                              getResourceIncludesExcludes(disc, a.appliesTo.includedResources,
                                                          a.appliesTo.excludedResources),
                          namespaceIncludesExcludes |->
                              [includes |-> a.appliesTo.includedNamespaces,
                               excludes |-> a.appliesTo.excludedNamespaces],
                          selector |-> sel] >> \o rest.resolved]

\* mutant: every resolved action is taken as applicable
ApplicableActionsAll(res, ns) == ctx.actions

\* restoreResource, lines 545-557: the actions whose filters admit resource and namespace
ApplicableActions(res, ns) ==
    SelectSeq(ctx.actions,
              LAMBDA a : /\ ShouldInclude(a.resourceIncludesExcludes, res)
                         /\ (ns = "" \/ ShouldInclude(a.namespaceIncludesExcludes, ns)))

BareNamespace(name) ==
    [name |-> name, labels |-> EmptyMap, annotations |-> EmptyMap, spec |-> EmptyMap]

\* getNamespace: the backed-up namespace object under its new name, or a bare one
getNamespace(nsName, remappedName, getFails) ==
    LET g == ArchiveGet(Namespaces, "", nsName \o ".json")
        u == Unmarshal(g.bytes)
    IN IF getFails \/ ~g.ok THEN BareNamespace(remappedName)
       ELSE IF ~u.ok THEN BareNamespace(remappedName)
       ELSE [name |-> remappedName,
             labels |-> GetLabels(u.obj),
             annotations |-> GetAnnotations(u.obj),
             spec |-> GetOr(u.obj, "spec", EmptyMap)]

\* kube.EnsureNamespaceExists: create the namespace unless it is there already
EnsureNamespaceExists(ns, live) == IF Has(live, ns.name) THEN live ELSE Put(live, ns.name, ns)

\* mutant: the watches are left open
StopWatchesNone(ws) == ws

\* restoreFromArchive's deferred function: stop every watch
StopWatches(ws) == [i \in DOMAIN ws |-> [ws[i] EXCEPT !.stopped = TRUE]]

\* the messages of new that old does not have yet (old is a prefix of new)
Added(new, old) ==
    [ark |-> SubSeq(new.ark, Len(old.ark) + 1, Len(new.ark)),
     cluster |-> SubSeq(new.cluster, Len(old.cluster) + 1, Len(new.cluster)),
     namespaces |-> [n \in DOMAIN new.namespaces |->
                        SubSeq(new.namespaces[n], Len(NsList(old, n)) + 1,
                               Len(new.namespaces[n]))]]

\* no message at all in a RestoreResult
IsEmpty(r) ==
    r.ark = << >> /\ r.cluster = << >> /\ \A n \in DOMAIN r.namespaces : r.namespaces[n] = << >>

NoFrame ==
    [resource |-> "", namespace |-> "", iter |-> "", files |-> << >>, fi |-> 1,
     resourceClient |-> FALSE, resourceWatch |-> 0, applicableActions |-> << >>,
     warnings |-> EmptyResult, errs |-> EmptyResult, id |-> 0]

NoCtx ==
    [prioritizedResources |-> << >>, selector |-> LabelSelectorAsSelector(NilSelector),
     actions |-> << >>, resticRestorer |-> FALSE,
     pvRestorer |-> [snapshotVolumes |-> "nil", restorePVs |-> "nil",
                     volumeBackups |-> EmptyMap, blockStore |-> FALSE],
     pvsToProvision |-> {}, resourceWatches |-> << >>, existingNamespaces |-> {}]

NoEv ==
    [kind |-> "none", res |-> "", ns |-> "", iter |-> "", file |-> "", name |-> "",
     path |-> "", dw |-> EmptyResult, de |-> EmptyResult, prepared |-> EmptyMap,
     live |-> EmptyMap, create |-> << >>, mutated |-> FALSE, patch |-> {},
     called |-> FALSE, verified |-> FALSE, readable |-> FALSE, nsObj |-> BareNamespace(""),
     ran |-> << >>]

NoResult == [returned |-> FALSE, warnings |-> EmptyResult, errs |-> EmptyResult]

\* ------------------------------------------------------------------ scenarios
DefaultPriorities ==
    << "namespaces", "persistentvolumes", "persistentvolumeclaims", "serviceaccounts", "pods" >>

DefaultRestore ==
    [name |-> "restore-1", backupName |-> "backup-1", labelSelector |-> NilSelector,
     namespaceMapping |-> EmptyMap, includedNamespaces |-> {}, excludedNamespaces |-> {},
     includedResources |-> {}, excludedResources |-> {},
     includeClusterResources |-> "nil", restorePVs |-> "nil"]

DefaultBackup == [name |-> "backup-1", snapshotVolumes |-> "nil", volumeBackups |-> VolumeBackups]

DefaultKr ==
    [resourcePriorities |-> DefaultPriorities, discovery |-> FullDiscovery,
     blockStore |-> TRUE, resticRestorerFactory |-> TRUE]

ItemActionOn(resources, does) ==
    [appliesTo |-> [ok |-> TRUE, includedResources |-> resources, excludedResources |-> {},
                    includedNamespaces |-> {}, excludedNamespaces |-> {},
                    labelSelector |-> ""],
     does |-> does]

\* a cluster that already holds some of the backed-up objects: cm1 and pv2 with other
\* contents, sa1 with other secrets, sa2 with one secret more, p1 as backed up and
\* restored before
LiveCluster ==
    LET restored(doc) == Stored(addRestoreLabels(resetMetadataAndStatus(doc).obj,
                                                  "restore-0", "backup-1"))
    IN Put(Put(Put(Put(Put(EmptyMap,
         Key(ConfigMaps, "ns1", "cm1"),
             restored([metadata |-> Meta("cm1", "ns1", AppA, EmptyMap), data |-> "live"])),
         Key(PersistentVolumes, "", "pv2"),
             restored([PVDoc("pv2", AppA, "Retain") EXCEPT !.spec.volumeID = "vol-live"])),
         Key(ServiceAccounts, "ns1", "sa1"),
             restored([metadata |-> Meta("sa1", "ns1", EmptyMap, EmptyMap),
                       secrets |-> << "s0", "s1" >>, imagePullSecrets |-> << >>])),
         Key(ServiceAccounts, "ns2", "sa2"),
             restored([metadata |-> Meta("sa2", "ns2", EmptyMap, EmptyMap),
                       secrets |-> << "s1", "s9" >>, imagePullSecrets |-> << >>])),
         Key(Pods, "ns1", "p1"),
             restored(PodDoc("p1", "ns1", AppA, EmptyMap, "Running")))

LiveNamespaces == Put(EmptyMap, "ns1", BareNamespace("ns1"))

DefaultScenario ==
    [restore |-> DefaultRestore, backup |-> DefaultBackup, kr |-> DefaultKr,
     actions |-> << >>, cluster |-> EmptyMap, clusterNS |-> EmptyMap, flaky |-> FALSE]

\* the default scenario and every scenario that differs from it in one respect, with
\* reliable collaborators; and the scenarios in which collaborator calls may fail
Scenarios ==
    {DefaultScenario, [DefaultScenario EXCEPT !.flaky = TRUE]}
    \cup { [DefaultScenario EXCEPT !.restore.labelSelector = ls] :
             ls \in { [nil |-> FALSE, matchLabels |-> AppA, valid |-> TRUE],
                      [nil |-> FALSE, matchLabels |-> EmptyMap, valid |-> FALSE] } }
    \cup { [DefaultScenario EXCEPT !.restore.namespaceMapping = m, !.flaky = fl] :
             m \in { [n \in {"ns1"} |-> "ns2"], [n \in {"ns1"} |-> "ns3"] },
             fl \in BOOLEAN }
    \cup { [DefaultScenario EXCEPT !.restore.namespaceMapping = [n \in {"ns1"} |-> "ns2"],
                                   !.kr.resourcePriorities = << >>, !.flaky = TRUE] }
    \cup { [DefaultScenario EXCEPT !.restore.excludedNamespaces = {"ns2"}],
           [DefaultScenario EXCEPT !.restore.excludedResources = {"configmaps"}],
           [DefaultScenario EXCEPT !.restore.includeClusterResources = "false"],
           [DefaultScenario EXCEPT !.restore.restorePVs = "false"],
           [DefaultScenario EXCEPT !.backup.snapshotVolumes = "false"],
           [DefaultScenario EXCEPT !.kr.blockStore = FALSE],
           [DefaultScenario EXCEPT !.kr.blockStore = FALSE,
                                   !.backup.volumeBackups = [n \in {"pv1"} |-> VolumeBackups["pv3"]]],
           [DefaultScenario EXCEPT !.kr.resticRestorerFactory = FALSE],
           [DefaultScenario EXCEPT !.kr.resourcePriorities = << >>],
           [DefaultScenario EXCEPT !.kr.resourcePriorities = << "pods", "nodes" >>],
           [DefaultScenario EXCEPT !.cluster = LiveCluster, !.clusterNS = LiveNamespaces],
           [DefaultScenario EXCEPT !.cluster = LiveCluster, !.clusterNS = LiveNamespaces,
                                   !.flaky = TRUE] }
    \cup { [DefaultScenario EXCEPT !.actions = << ItemActionOn({"configmaps", "pods"}, d) >>] :
             d \in {"update", "error", "warn", "warnerr"} }
    \cup { [DefaultScenario EXCEPT !.actions =
               << [ItemActionOn({"pods"}, "update") EXCEPT !.appliesTo.ok = FALSE] >>],
           [DefaultScenario EXCEPT !.actions =
               << ItemActionOn({"pods"}, "update"),
                  [ItemActionOn({"pods"}, "update") EXCEPT !.appliesTo.labelSelector = "app in" ] >>],
           [DefaultScenario EXCEPT !.actions =
               << ItemActionOn({"pods"}, "relabel"),
                  [ItemActionOn({"pods", "configmaps", "persistentvolumes"}, "update")
                      EXCEPT !.appliesTo.includedNamespaces = {"ns1"}],
                  [ItemActionOn({"pods", "configmaps", "persistentvolumes"}, "error")
                      EXCEPT !.appliesTo.labelSelector = "app=a"] >>] }

NoPrio == [disc |-> << >>, priorities |-> << >>, ie |-> AllIncluded, done |-> TRUE,
           out |-> [ok |-> TRUE, ret |-> << >>]]

\* inputs of the prioritizer on its own
PrioNames == {"po", "jobs", "configmaps", "nodes"}
PrioLists == UNION { [1..n -> PrioNames] : n \in 0..MaxPrio }
PrioDiscoveries ==
    { FullDiscovery,
      << [groupVersion |-> "batch/v1", apiResources |-> << "jobs" >>],
         [groupVersion |-> "v1", apiResources |-> << "pods", "configmaps" >>],
         [groupVersion |-> "batch/v1beta1", apiResources |-> << "jobs" >>] >>,
      << [groupVersion |-> "v1",
          apiResources |-> << "serviceaccounts", "pods", "nodes", "configmaps" >>] >> }
PrioFilters ==
    { AllIncluded,
      [includes |-> {}, excludes |-> {"pods"}],
      [includes |-> {"pods", "configmaps", "serviceaccounts"}, excludes |-> {}],
      [includes |-> {"*"}, excludes |-> {"jobs.batch", "configmaps"}] }

Idle ==
    /\ ctx = NoCtx /\ pc = "start" /\ ri = 1 /\ nsl = [list |-> << >>, i |-> 1]
    /\ frame = NoFrame /\ warnings = EmptyResult /\ errs = EmptyResult /\ result = NoResult
    /\ volumes = << >> /\ rtasks = {} /\ gtasks = {} /\ faults = 0 /\ rerun = FALSE
    /\ creates = << >> /\ patches = {} /\ ensures = << >> /\ bsCalls = {} /\ lost = {}
    /\ ev = NoEv
    /\ prev = [result |-> NoResult, cluster |-> EmptyMap, clusterNS |-> EmptyMap,
               volumes |-> << >>]

\* no archive under test
NoArchive ==
    [closed |-> TRUE, tar |-> << >>, written |-> << >>,
     rd |-> [state |-> "closed", tempDir |-> "", dir |-> FALSE, fs |-> << >>]]

\* no executePVAction on its own, and no backup controller
NoPVA == [done |-> TRUE]
NoController == [instances |-> {}]
RestoreOnly == ar = NoArchive /\ pva = NoPVA /\ bc = NoController /\ prio = NoPrio

Init ==
    /\ RestoreOnly
    /\ \E sc \in Scenarios :
          /\ restore = sc.restore /\ backup = sc.backup /\ kr = sc.kr
          /\ actions = sc.actions /\ cluster = sc.cluster /\ clusterNS = sc.clusterNS
          /\ flaky = sc.flaky
    /\ Idle

cfgVars == << restore, backup, kr, actions, prio, rerun, flaky, prev, ar, pva, bc >>
histVars == << creates, patches, ensures, bsCalls, lost >>
envVars == << cluster, clusterNS, volumes, rtasks, gtasks >>
loopVars == << ri, nsl, frame, warnings, errs >>

\* ------------------------------------------------------------------ Restore
\* mutant: the failure is reported among the warnings
AbortWithWarning(kind) ==
    /\ pc' = "done"
    /\ result' = [returned |-> TRUE, warnings |-> addArkError(EmptyResult, Msg(kind, "", "")),
                  errs |-> EmptyResult]
    /\ UNCHANGED ctx

\* Restore fails before the archive is read, with one system error: Restore and
\* execute return api.RestoreResult{}, api.RestoreResult{Ark: {err}}
Abort(kind) ==
    /\ pc' = "done"
    /\ result' = [returned |-> TRUE, warnings |-> EmptyResult,
                  errs |-> addArkError(EmptyResult, Msg(kind, "", ""))]
    /\ UNCHANGED ctx

\* Restore (lines 170-244) and execute (lines 327-338), up to the main loop
Begin ==
    /\ pc = "start"
    /\ \E f \in {"none", "restic", "extract"} :
         LET selector == BuildSelector(restore.labelSelector)
             ie == getResourceIncludesExcludes(kr.discovery, restore.includedResources,
                                               restore.excludedResources)
             pr == prioritizeResources(kr.discovery, kr.resourcePriorities, ie)
             ra == resolveActions(actions, kr.discovery, 1)
             fail == CASE ~selector.ok -> "selector"
                       [] ~pr.ok -> "priorities"
                       [] ~ra.ok -> "actions"
                       [] f = "restic" /\ kr.resticRestorerFactory -> "restic"
                       [] f = "extract" -> "extract"
                       [] OTHER -> ""
             used == fail \in {"restic", "extract"}
         IN /\ f = "none" \/ (used /\ fail = f /\ MayFail)
            /\ faults' = IF used THEN faults + 1 ELSE faults
            /\ ev' = [NoEv EXCEPT !.kind = "begin", !.path = fail]
            /\ IF fail # "" THEN Abort(fail)
               ELSE /\ pc' = "loop"
                    /\ result' = result
                    /\ ctx' = [prioritizedResources |-> pr.ret, selector |-> selector,
                               actions |-> ra.resolved,
                               resticRestorer |-> kr.resticRestorerFactory,
                               pvRestorer |-> [snapshotVolumes |-> backup.snapshotVolumes,
                                               restorePVs |-> restore.restorePVs,
                                               volumeBackups |-> backup.volumeBackups,
                                               blockStore |-> kr.blockStore],
                               pvsToProvision |-> {}, resourceWatches |-> << >>,
                               existingNamespaces |-> {}]
    /\ UNCHANGED << cfgVars, histVars, envVars, loopVars >>

\* restoreFromArchive returns (w, e): its deferred function stops the watches
ReturnFromArchive(w, e) ==
    /\ pc' = "done"
    /\ result' = [returned |-> TRUE, warnings |-> w, errs |-> e]
    /\ ctx' = [ctx EXCEPT !.resourceWatches = StopWatches(@)]

\* restoreResource, lines 515-557: the call's start, up to the loop over the items.
\* listFails: ListContents returns an error.
\* mutant: cluster-scoped calls are never skipped
SkipClusterScopedNever(ns) == FALSE

\* lines 518-521: cluster-resource restoration is disabled and the call is cluster-scoped
SkipClusterScoped(ns) == restore.includeClusterResources = "false" /\ ns = ""

EnterResource(res, ns, iter, listFails) ==
    LET skip == SkipClusterScoped(ns)
        noDir == FilesOf(res, ns) = << >>
        base == [NoFrame EXCEPT !.resource = res, !.namespace = ns, !.iter = iter,
                                !.id = frame.id + 1]
    IN /\ pc' = "items"
       /\ frame' = IF skip THEN base
                   ELSE IF listFails \/ noDir
                   THEN [base EXCEPT !.errs = addToResult(@, ns, Msg("readDir", res, ""))]
                   ELSE [base EXCEPT !.files = ListContents(res, ns),
                                     !.applicableActions = ApplicableActions(res, ns)]

\* one turn of the loop over ctx.prioritizedResources, lines 361-388
NextResource ==
    /\ pc = "loop"
    /\ ri <= Len(ctx.prioritizedResources)
    /\ LET resource == ctx.prioritizedResources[ri]
           sc == GetResourceScope(resource)
       IN \E f \in {"none", "scope", "listns", "list"} :
            LET used == CASE resource = Namespaces -> FALSE
                          [] f = "scope" -> TRUE
                          [] ~sc.found -> FALSE
                          [] sc.scope = "cluster" ->
                               f = "list" /\ restore.includeClusterResources # "false"
                          [] OTHER -> f = "listns"
            IN /\ f = "none" \/ (used /\ MayFail)
               /\ faults' = IF used THEN faults + 1 ELSE faults
               /\ ev' = [NoEv EXCEPT !.kind = "resource", !.res = resource]
               /\ IF resource = Namespaces \/ (f # "scope" /\ ~sc.found)
                  THEN /\ ri' = ri + 1
                       /\ UNCHANGED << pc, nsl, frame, errs, result, ctx >>
                  ELSE IF f = "scope" \/ (f = "listns" /\ sc.scope # "cluster")
                  THEN /\ errs' = addArkError(errs, Msg(f, resource, ""))
                       /\ ReturnFromArchive(warnings, errs')
                       /\ UNCHANGED << ri, nsl, frame >>
                  ELSE IF sc.scope = "cluster"
                  THEN /\ EnterResource(resource, "", "", f = "list")
                       /\ UNCHANGED << ri, nsl, errs, result, ctx >>
                  ELSE /\ nsl' = [list |-> ListNamespaces(resource), i |-> 1]
                       /\ pc' = "ns"
                       /\ UNCHANGED << ri, frame, errs, result, ctx >>
    /\ UNCHANGED << cfgVars, histVars, envVars, warnings >>

\* mutant: the target namespace is taken as verified without looking
NsOutcomeUnchecked(verified, ensureFails) == "verified"

\* lines 406-417: what is done about the target namespace before restoring into it
NsOutcome(verified, ensureFails) ==
    IF verified THEN "verified" ELSE IF ensureFails THEN "failed" ELSE "ensured"

\* one turn of the loop over the resource type's namespaces, lines 390-422
NextNamespace ==
    /\ pc = "ns"
    /\ nsl.i <= Len(nsl.list)
    /\ LET resource == ctx.prioritizedResources[ri]
           nsName == nsl.list[nsl.i]
           namespaceFilter == [includes |-> restore.includedNamespaces,
                               excludes |-> restore.excludedNamespaces]
           mappedNsName == GetOr(restore.namespaceMapping, nsName, nsName)
           verified == mappedNsName \in ctx.existingNamespaces
       IN \E f \in {"none", "nsget", "ensure", "list"} :
            LET included == ShouldInclude(namespaceFilter, nsName)
                readable == f # "nsget" /\ ArchiveGet(Namespaces, "", nsName \o ".json").ok
                ns == getNamespace(nsName, mappedNsName, f = "nsget")
                used == included /\ (IF f \in {"nsget", "ensure"} THEN ~verified ELSE f = "list")
                outcome == NsOutcome(verified, f = "ensure")
                e == [NoEv EXCEPT !.kind = "ns", !.res = resource, !.ns = mappedNsName,
                                  !.iter = nsName, !.verified = verified]
            IN /\ f = "none" \/ (used /\ MayFail)
               /\ faults' = IF used THEN faults + 1 ELSE faults
               /\ IF ~included
                  THEN /\ nsl' = [nsl EXCEPT !.i = @ + 1]
                       /\ ev' = [e EXCEPT !.path = "excluded"]
                       /\ UNCHANGED << pc, frame, errs, ctx, clusterNS, ensures >>
                  ELSE IF outcome = "failed"
                  THEN /\ errs' = addArkError(errs, Msg("ensure", resource, mappedNsName))
                       /\ nsl' = [nsl EXCEPT !.i = @ + 1]
                       /\ ensures' = Append(ensures, [ns |-> ns, iter |-> nsName,
                                                      res |-> resource, ok |-> FALSE])
                       /\ ev' = [e EXCEPT !.path = "ensureErr", !.called = TRUE,
                                          !.readable = readable, !.nsObj = ns]
                       /\ UNCHANGED << pc, frame, ctx, clusterNS >>
                  ELSE /\ IF outcome = "verified"
                          THEN /\ ev' = [e EXCEPT !.path = "enter"]
                               /\ UNCHANGED << clusterNS, ensures, ctx >>
                          ELSE /\ clusterNS' = EnsureNamespaceExists(ns, clusterNS)
                               /\ ensures' = Append(ensures, [ns |-> ns, iter |-> nsName,
                                                              res |-> resource, ok |-> TRUE])
                               /\ ctx' = [ctx EXCEPT !.existingNamespaces = @ \cup {mappedNsName}]
                               /\ ev' = [e EXCEPT !.path = "enter", !.called = TRUE,
                                                  !.readable = readable, !.nsObj = ns]
                       /\ EnterResource(resource, mappedNsName, nsName, f = "list")
                       /\ UNCHANGED << nsl, errs >>
    /\ UNCHANGED << cfgVars, creates, patches, bsCalls, lost, cluster, volumes, rtasks,
                    gtasks, ri, warnings, result >>

\* the namespaces of the resource type are done: on to resourceWaitGroup.Wait()
NamespacesDone ==
    /\ pc = "ns"
    /\ nsl.i > Len(nsl.list)
    /\ pc' = "wait"
    /\ ev' = [NoEv EXCEPT !.kind = "nsdone"]
    /\ UNCHANGED << cfgVars, histVars, envVars, loopVars, ctx, result, faults >>

ItemFaults ==
    {"none", "get", "client", "bs", "watch", "create", "getlive", "merge", "genpatch", "patch"}

\* one item of the running restoreResource call, lines 559-796
RestoreItem ==
    /\ pc = "items"
    /\ frame.fi <= Len(frame.files)
    /\ \E f \in ItemFaults : \E s \in {ItemStep(f)} :
           /\ f = "none" \/ (s.used /\ MayFail)
           /\ faults' = IF s.used THEN faults + 1 ELSE faults
           /\ pc' = IF s.panic THEN "panic" ELSE "items"
           /\ frame' = [frame EXCEPT !.fi = IF s.ret THEN Len(frame.files) + 1 ELSE @ + 1,
                                     !.resourceClient = s.client,
                                     !.resourceWatch = s.watch,
                                     !.warnings = s.w,
                                     !.errs = s.e]
           /\ ctx' = [ctx EXCEPT !.pvsToProvision = s.pvs, !.resourceWatches = s.watches]
           /\ cluster' = s.cluster
           /\ volumes' = s.volumes
           /\ rtasks' = s.rtasks
           /\ gtasks' = s.gtasks
           /\ creates' = s.creates
           /\ patches' = s.patches
           /\ bsCalls' = s.bsCalls
           /\ ev' = [NoEv EXCEPT !.kind = "item", !.res = frame.resource,
                                 !.ns = frame.namespace, !.iter = frame.iter,
                                 !.file = CurFile, !.name = s.name, !.path = s.path,
                                 !.dw = Added(s.w, frame.warnings),
                                 !.de = Added(s.e, frame.errs),
                                 !.prepared = s.prepared, !.live = s.live,
                                 !.create = SubSeq(s.creates, Len(creates) + 1, Len(s.creates)),
                                 !.mutated = (s.cluster # cluster \/ s.patches # patches),
                                 !.patch = s.patches \ patches,
                                 !.ran = s.ran]
    /\ UNCHANGED << cfgVars, clusterNS, ensures, lost, ri, nsl, warnings, errs, result >>

\* restoreResource returns; the caller merges its results (lines 378-381, 419-421).
\* A cluster-scoped resource type continues with the next type.
ReturnResource ==
    /\ pc = "items"
    /\ frame.fi > Len(frame.files)
    /\ warnings' = merge(warnings, frame.warnings)
    /\ errs' = merge(errs, frame.errs)
    /\ frame' = [NoFrame EXCEPT !.id = frame.id]
    /\ IF frame.namespace = ""
       THEN pc' = "loop" /\ ri' = ri + 1 /\ nsl' = nsl
       ELSE pc' = "ns" /\ ri' = ri /\ nsl' = [nsl EXCEPT !.i = @ + 1]
    /\ ev' = [NoEv EXCEPT !.kind = "return", !.res = frame.resource, !.ns = frame.namespace]
    /\ UNCHANGED << cfgVars, histVars, envVars, ctx, result, faults >>

\* resourceWaitGroup.Wait(), lines 424-427: every readiness task has finished
ResourceWait ==
    /\ pc = "wait"
    /\ \A t \in rtasks : t.state # "waiting"
    /\ pc' = "loop"
    /\ ri' = ri + 1
    /\ ev' = [NoEv EXCEPT !.kind = "wait"]
    /\ UNCHANGED << cfgVars, histVars, envVars, ctx, nsl, frame, warnings, errs, result, faults >>

\* the main loop is between two resource types, is blocked in resourceWaitGroup.Wait()
\* or in globalWaitGroup.Wait(), or Restore has returned
Joining == pc = "wait" \/ pc = "done" \/ pc = "loop"

\* A readiness task (lines 640-647) ends: waitForReady saw the PV become available,
\* or timed out and adds a warning to the warnings of the restoreResource call that
\* started it. A warning written after that call has returned is read by nobody.
\* The task's end is taken while its call is running, between two resource types,
\* or when the main loop waits or has returned.
ReadyTask ==
    /\ \E t \in rtasks :
         /\ t.state = "waiting"
         /\ \/ /\ Joining
               /\ ~ctx.resourceWatches[t.watch].stopped
               /\ Key(PersistentVolumes, "", t.pv) \in DOMAIN cluster
               /\ rtasks' = (rtasks \ {t}) \cup {[t EXCEPT !.state = "ready"]}
               /\ UNCHANGED << frame, lost >>
            \/ /\ pc = "items" /\ frame.id = t.call
               /\ rtasks' = (rtasks \ {t}) \cup {[t EXCEPT !.state = "timeout"]}
               /\ frame' = [frame EXCEPT !.warnings =
                               addArkError(@, Msg("pvTimeout", PersistentVolumes, t.pv))]
               /\ lost' = lost
            \/ /\ Joining
               /\ rtasks' = (rtasks \ {t}) \cup {[t EXCEPT !.state = "timeout"]}
               /\ lost' = lost \cup {t.pv}
               /\ frame' = frame
    /\ UNCHANGED << cfgVars, creates, patches, ensures, bsCalls, cluster, clusterNS, volumes,
                    gtasks, ctx, pc, ri, nsl, warnings, errs, result, faults, ev >>

\* A pod volume restore (lines 780-793) ends, with or without errors. Nothing reads
\* its outcome before globalWaitGroup.Wait(), so its end is taken while the main
\* loop waits there.
PodVolumeTask ==
    /\ pc = "loop" /\ ri > Len(ctx.prioritizedResources)
    /\ \E t \in gtasks, outcome \in {"ok", "failed"} :
         /\ t.state = "running"
         /\ gtasks' = (gtasks \ {t}) \cup {[t EXCEPT !.state = outcome]}
    /\ UNCHANGED << cfgVars, histVars, cluster, clusterNS, volumes, rtasks, ctx, pc, loopVars,
                    result, faults, ev >>

\* the errors of the whole-restore tasks, in any order of the failed tasks
RECURSIVE TaskErrors(_)
TaskErrors(ts) ==
    IF ts = {} THEN << >>
    ELSE LET t == CHOOSE x \in ts : TRUE
         IN (IF t.state = "failed" THEN << Msg("podVolumes", Pods, t.pod) >> ELSE << >>)
            \o TaskErrors(ts \ {t})

\* the end of restoreFromArchive, lines 430-443: globalWaitGroup.Wait() and the return
Finish ==
    /\ pc = "loop"
    /\ ri > Len(ctx.prioritizedResources)
    /\ \A t \in gtasks : t.state # "running"
    /\ errs' = [errs EXCEPT !.ark = @ \o TaskErrors(gtasks)]
    /\ ReturnFromArchive(warnings, errs')
    /\ ev' = [NoEv EXCEPT !.kind = "finish"]
    /\ UNCHANGED << cfgVars, histVars, envVars, ri, nsl, frame, warnings, faults >>

\* Restore is called again with the same request, backup and archive
Rerun ==
    /\ pc = "done"
    /\ ~rerun
    /\ \A t \in rtasks : t.state # "waiting"
    /\ rerun' = TRUE
    /\ pc' = "start"
    /\ ctx' = NoCtx /\ ri' = 1 /\ nsl' = [list |-> << >>, i |-> 1] /\ frame' = NoFrame
    /\ warnings' = EmptyResult /\ errs' = EmptyResult /\ result' = NoResult
    /\ rtasks' = {} /\ gtasks' = {}
    /\ creates' = << >> /\ patches' = {} /\ ensures' = << >> /\ bsCalls' = {} /\ lost' = {}
    /\ ev' = NoEv
    /\ prev' = [result |-> result, cluster |-> cluster, clusterNS |-> clusterNS,
                volumes |-> volumes]
    /\ UNCHANGED << restore, backup, kr, actions, prio, flaky, cluster, clusterNS, volumes,
                    faults, ar, pva, bc >>

Next ==
    \/ Begin
    \/ NextResource
    \/ NextNamespace
    \/ NamespacesDone
    \/ RestoreItem
    \/ ReturnResource
    \/ ResourceWait
    \/ ReadyTask
    \/ PodVolumeTask
    \/ Finish

\* one Restore, in any of the scenarios
Spec == Init /\ [][Next]_vars

\* prioritizeResources applied to inputs of its own
Prioritize ==
    /\ ~prio.done
    /\ prio' = [prio EXCEPT !.done = TRUE,
                            !.out = prioritizeResources(prio.disc, prio.priorities, prio.ie)]
    /\ UNCHANGED << restore, backup, kr, actions, ctx, pc, ri, nsl, frame, warnings, errs,
                    result, cluster, clusterNS, volumes, rtasks, gtasks, flaky, faults, rerun,
                    creates, patches, ensures, bsCalls, lost, ev, prev, ar, pva, bc >>

InitPrio ==
    /\ ar = NoArchive /\ pva = NoPVA /\ bc = NoController
    /\ restore = DefaultRestore /\ backup = DefaultBackup /\ kr = DefaultKr
    /\ actions = << >> /\ cluster = EmptyMap /\ clusterNS = EmptyMap /\ flaky = FALSE
    /\ Idle
    /\ \E d \in PrioDiscoveries, l \in PrioLists, ie \in PrioFilters :
          prio = [disc |-> d, priorities |-> l, ie |-> ie, done |-> FALSE,
                  out |-> [ok |-> FALSE, ret |-> << >>]]

SpecPrio == InitPrio /\ [][Prioritize]_vars

\* a Restore and then the same Restore again
NextTwice == Next \/ Rerun
SpecTwice == Init /\ [][NextTwice]_vars

\* ------------------------------------------------------------------ archive
\* arkv1api.ResourcesDir, ClusterScopedDir, NamespaceScopedDir
ResourcesDir == "resources"
ClusterScopedDir == "cluster"
NamespaceScopedDir == "namespaces"

\* json.Marshal of a string item: the string in quotes
Marshal(item) == "\"" \o item \o "\""

\* mutant: the file is named after the item alone
FilePathNoSuffix(groupResource, namespace, name) ==
    IF namespace # ""
    THEN << ResourcesDir, groupResource, NamespaceScopedDir, namespace, name >>
    ELSE << ResourcesDir, groupResource, ClusterScopedDir, name >>

\* gzipTarWriter.Write, lines 57-62: the path of the item's file, by path element
FilePath(groupResource, namespace, name) ==
    IF namespace # ""
    THEN << ResourcesDir, groupResource, NamespaceScopedDir, namespace, name \o ".json" >>
    ELSE << ResourcesDir, groupResource, ClusterScopedDir, name \o ".json" >>

\* the file system under the reader's temporary directory: path -> bytes
IsUnder(dir, path) == Len(dir) < Len(path) /\ SubSeq(path, 1, Len(dir)) = dir
DirExists(fs, dir) == \E path \in DOMAIN fs : IsUnder(dir, path)
ReadDir(fs, dir) ==
    IF ~DirExists(fs, dir) THEN [ok |-> FALSE, names |-> {}, dirs |-> {}]
    ELSE [ok |-> TRUE,
          names |-> { path[Len(dir) + 1] : path \in { q \in DOMAIN fs : IsUnder(dir, q) } },
          dirs |-> { path[Len(dir) + 1] :
                       path \in { q \in DOMAIN fs : IsUnder(dir, q) /\ Len(q) > Len(dir) + 1 } }]

\* Extract's loop over the tar entries: MkdirAll, Create (truncating) and Copy
RECURSIVE ExtractEntries(_, _, _)
ExtractEntries(fs, tar, n) ==
    IF n = 0 THEN fs
    ELSE Put(ExtractEntries(fs, tar, n - 1), tar[n].name, tar[n].bytes)

\* mutant: a resource type with a namespaces directory is namespace-scoped
RdGetResourceScopeByNamespaces(r, groupResource) ==
    IF r.tempDir = "" THEN [ok |-> FALSE, found |-> FALSE, scope |-> ""]
    ELSE IF ~DirExists(r.fs, << ResourcesDir, groupResource >>)
    THEN [ok |-> TRUE, found |-> FALSE, scope |-> ""]
    ELSE IF DirExists(r.fs, << ResourcesDir, groupResource, NamespaceScopedDir >>)
    THEN [ok |-> TRUE, found |-> TRUE, scope |-> "namespace"]
    ELSE [ok |-> TRUE, found |-> TRUE, scope |-> "cluster"]

\* gzipTarReader.GetResourceScope
RdGetResourceScope(r, groupResource) ==
    IF r.tempDir = "" THEN [ok |-> FALSE, found |-> FALSE, scope |-> ""]
    ELSE IF ~DirExists(r.fs, << ResourcesDir, groupResource >>)
    THEN [ok |-> TRUE, found |-> FALSE, scope |-> ""]
    ELSE IF DirExists(r.fs, << ResourcesDir, groupResource, ClusterScopedDir >>)
    THEN [ok |-> TRUE, found |-> TRUE, scope |-> "cluster"]
    ELSE [ok |-> TRUE, found |-> TRUE, scope |-> "namespace"]

\* gzipTarReader.ListNamespaces
RdListNamespaces(r, groupResource) ==
    LET sc == RdGetResourceScope(r, groupResource)
        d == ReadDir(r.fs, << ResourcesDir, groupResource, NamespaceScopedDir >>)
    IN IF r.tempDir = "" \/ ~sc.ok \/ ~sc.found \/ sc.scope # "namespace" \/ ~d.ok
       THEN [ok |-> FALSE, names |-> {}]
       ELSE [ok |-> TRUE, names |-> d.dirs]

\* gzipTarReader.ListContents
RdListContents(r, groupResource, namespace) ==
    LET dir == IF namespace = ""
               THEN << ResourcesDir, groupResource, ClusterScopedDir >>
               ELSE << ResourcesDir, groupResource, NamespaceScopedDir, namespace >>
        d == ReadDir(r.fs, dir)
    IN IF r.tempDir = "" \/ ~d.ok THEN [ok |-> FALSE, names |-> {}]
       ELSE [ok |-> TRUE, names |-> d.names]

\* gzipTarReader.Get
RdGet(r, groupResource, namespace, name) ==
    LET filename == IF namespace = ""
                    THEN << ResourcesDir, groupResource, ClusterScopedDir, name >>
                    ELSE << ResourcesDir, groupResource, NamespaceScopedDir, namespace, name >>
    IN IF r.tempDir = "" \/ filename \notin DOMAIN r.fs THEN [ok |-> FALSE, bytes |-> ""]
       ELSE [ok |-> TRUE, bytes |-> r.fs[filename]]

\* what the archive on its own is given
MaxWrites == 2
ArResources == {"pods", "nodes"}
ArNamespaces == {"", "ns1", "ns2"}
ArNames == {"a", "b"}
ArItems == {"x", "y"}

archiveVars == << restore, backup, kr, actions, ctx, pc, ri, nsl, frame, warnings, errs,
                  result, cluster, clusterNS, volumes, rtasks, gtasks, flaky, faults, rerun,
                  creates, patches, ensures, bsCalls, lost, ev, prev, pva, bc, prio >>

\* gzipTarWriter.Write: one more tar entry
WrWrite ==
    /\ ~ar.closed /\ ar.rd.state = "new"
    /\ Len(ar.written) < MaxWrites
    /\ \E gr \in ArResources, ns \in ArNamespaces, name \in ArNames, item \in ArItems :
          ar' = [ar EXCEPT
                   !.tar = Append(@, [name |-> FilePath(gr, ns, name), bytes |-> Marshal(item)]),
                   !.written = Append(@, [res |-> gr, ns |-> ns, name |-> name, item |-> item])]
    /\ UNCHANGED archiveVars

\* gzipTarWriter.Close: the tar and gzip streams are ended
WrClose ==
    /\ ~ar.closed /\ ar.rd.state = "new"
    /\ ar' = [ar EXCEPT !.closed = TRUE]
    /\ UNCHANGED archiveVars

\* gzipTarReader.Extract. It fails before the temporary directory is made (the gzip
\* header is unreadable, as with a writer that wrote nothing, or TempDir fails), or
\* with entry n + 1 after n entries (its header is cut off or damaged, or MkdirAll,
\* Create or Copy fails), or at the end of a stream that Close did not end, or it
\* reads every entry and sets tempDir.
RdExtract ==
    /\ ar.rd.state = "new"
    /\ \E made \in BOOLEAN, n \in 0 .. Len(ar.tar), complete \in BOOLEAN :
          /\ ~made => (n = 0 /\ ~complete)
          /\ complete => (n = Len(ar.tar) /\ ar.closed)
          /\ (made /\ ~complete) => (Len(ar.tar) > 0 /\ (n < Len(ar.tar) \/ ~ar.closed))
          /\ ar' = [ar EXCEPT !.rd =
                       [state |-> IF complete THEN "extracted" ELSE "failed",
                        tempDir |-> IF complete THEN "tmp" ELSE "",
                        dir |-> made,
                        fs |-> ExtractEntries(EmptyMap, ar.tar, n)]]
    /\ UNCHANGED archiveVars

\* gzipTarReader.Close: RemoveAll(tempDir) when tempDir is set
RdCloseReader(r) ==
    IF r.tempDir = "" THEN [r EXCEPT !.state = "closed"]
    ELSE [r EXCEPT !.state = "closed", !.dir = FALSE, !.fs = EmptyMap]

RdClose ==
    /\ ar.rd.state \in {"extracted", "failed"}
    /\ ar' = [ar EXCEPT !.rd = RdCloseReader(ar.rd)]
    /\ UNCHANGED archiveVars

InitArchive ==
    /\ restore = DefaultRestore /\ backup = DefaultBackup /\ kr = DefaultKr
    /\ actions = << >> /\ cluster = EmptyMap /\ clusterNS = EmptyMap /\ flaky = FALSE
    /\ Idle
    /\ prio = NoPrio /\ pva = NoPVA /\ bc = NoController
    /\ ar = [closed |-> FALSE, tar |-> << >>, written |-> << >>,
             rd |-> [state |-> "new", tempDir |-> "", dir |-> FALSE, fs |-> EmptyMap]]

NextArchive == WrWrite \/ WrClose \/ RdExtract \/ RdClose
SpecArchive == InitArchive /\ [][NextArchive]_vars

\* ------------------------------------------------------------------ executePVAction on its own
\* every variable of Restore itself
engineVars == << restore, backup, kr, actions, ctx, pc, ri, nsl, frame, warnings, errs, result,
                 cluster, clusterNS, volumes, rtasks, gtasks, flaky, faults, rerun, creates,
                 patches, ensures, bsCalls, lost, ev, prev >>

\* the restorers: the two flags unset, true or false, with and without a snapshot
\* record for pv3, with and without a block store
PVRestorers ==
    [snapshotVolumes : {"nil", "true", "false"}, restorePVs : {"nil", "true", "false"},
     volumeBackups : {EmptyMap, VolumeBackups}, blockStore : BOOLEAN]

\* the items: two volumes of the archive, one without a name, one without a spec
PVItems ==
    { PVDoc("pv3", EmptyMap, "Delete"), PVDoc("pv2", AppA, "Retain"),
      PVDoc("", EmptyMap, "Retain"), [metadata |-> Meta("pv3", "", EmptyMap, EmptyMap)] }

\* no Restore is running
NoRestore ==
    /\ restore = DefaultRestore /\ backup = DefaultBackup /\ kr = DefaultKr
    /\ actions = << >> /\ cluster = EmptyMap /\ clusterNS = EmptyMap /\ flaky = FALSE
    /\ Idle

InitPV ==
    /\ NoRestore
    /\ prio = NoPrio /\ ar = NoArchive /\ bc = NoController
    /\ \E r \in PVRestorers, obj \in PVItems, bsFails \in BOOLEAN :
          pva = [done |-> FALSE, r |-> r, obj |-> obj, bsFails |-> bsFails,
                 out |-> [ok |-> FALSE, obj |-> EmptyMap, volumes |-> << >>, called |-> FALSE]]

\* one call of executePVAction, the block store having created no volume yet
ExecutePV ==
    /\ ~pva.done
    /\ pva' = [pva EXCEPT !.done = TRUE,
                          !.out = executePVAction(pva.r, pva.obj, << >>, pva.bsFails)]
    /\ UNCHANGED << engineVars, ar, bc, prio >>

SpecPV == InitPV /\ [][ExecutePV]_vars

\* ------------------------------------------------------------------ backup controller
\* The Backup is a record of the fields processBackup reads and writes: its phase,
\* version, expiration and validation errors, and of its spec the TTL, the storage
\* location, the storage-location label and the volume snapshot locations. Its
\* included and excluded lists are valid: ValidateIncludesExcludes finds no error.
MaxInstances == 2
MaxLocations == 2

\* the VolumeSnapshotLocations the lister holds, each with its provider, and the
\* BackupStorageLocations it holds
SnapshotLocationLister ==
    [n \in {"aws-east", "aws-west", "gcp-1"} |-> IF n = "gcp-1" THEN "gcp" ELSE "aws"]
BackupLocationLister == {"default"}
DefaultBackupLocation == "default"

\* the orders in which a range over a map of the providers can run
MapOrders == { << "aws", "gcp" >>, << "gcp", "aws" >> }

ValidationError(kind, about) == [kind |-> kind, about |-> about]

\* pkgbackup.Request of lines 168-170: a copy of the Backup, nothing resolved yet
NewRequest(original) == [backup |-> original, storageLocation |-> "", snapshotLocations |-> << >>]

\* mutant: the storage location is not looked up
getLocationUnchecked(itm, defaultBackupLocation) ==
    [itm |-> [itm EXCEPT !.storageLocation = itm.backup.storageLocation], errors |-> << >>]

\* getLocationAndValidate: the storage location defaults and becomes a label; a
\* location the lister does not hold is a validation error
getLocationAndValidate(itm, defaultBackupLocation) ==
    LET name == IF itm.backup.storageLocation = "" THEN defaultBackupLocation
                ELSE itm.backup.storageLocation
        itm1 == [itm EXCEPT !.backup.storageLocation = name, !.backup.label = name]
    IN IF name \in BackupLocationLister
       THEN [itm |-> [itm1 EXCEPT !.storageLocation = name], errors |-> << >>]
       ELSE [itm |-> itm1, errors |-> << ValidationError("storageLocation", name) >>]

\* lines 288-308: the loop over the specified location names. acc.pl is
\* providerLocations, the location kept for each provider
RECURSIVE ProviderLocations(_, _, _)
ProviderLocations(names, i, acc) ==
    IF i > Len(names) THEN acc
    ELSE LET locationName == names[i] IN
         IF locationName \notin DOMAIN SnapshotLocationLister
         THEN ProviderLocations(names, i + 1,
                 [acc EXCEPT !.errors = Append(@, ValidationError("getLocation", locationName))])
         ELSE LET provider == SnapshotLocationLister[locationName] IN
              IF Has(acc.pl, provider)
              THEN IF acc.pl[provider] # locationName
                   THEN ProviderLocations(names, i + 1,
                           [acc EXCEPT !.errors = Append(@, ValidationError("twoNames",
                                                                            locationName))])
                   ELSE ProviderLocations(names, i + 1, acc)
              ELSE ProviderLocations(names, i + 1,
                      [acc EXCEPT !.pl = Put(@, provider, locationName)])

\* mutant: the default location of a provider replaces the specified one
defaultLocationsFirst(itm, defaultLocations, order) ==
    LET v == ProviderLocations(itm.backup.locations, 1, [errors |-> << >>, pl |-> EmptyMap])
        providerLocations ==
            [p \in DOMAIN v.pl \cup DOMAIN defaultLocations |->
                IF Has(defaultLocations, p) THEN defaultLocations[p] ELSE v.pl[p]]
        providers == SelectSeq(order, LAMBDA p : p \in DOMAIN providerLocations)
        names == [k \in DOMAIN providers |-> providerLocations[providers[k]]]
    IN IF Len(v.errors) > 0
       THEN [itm |-> itm, errors |-> v.errors]
       ELSE [itm |-> [itm EXCEPT !.backup.locations = names,
                                 !.snapshotLocations = @ \o names],
             errors |-> << >>]

\* defaultAndValidateSnapshotLocations. defaultLocations: the default location name
\* of each default provider; order: the order in which the range of line 325 runs
defaultAndValidateSnapshotLocations(itm, defaultLocations, order) ==
    LET v == ProviderLocations(itm.backup.locations, 1, [errors |-> << >>, pl |-> EmptyMap])
        providerLocations ==
            [p \in DOMAIN v.pl \cup DOMAIN defaultLocations |->
                IF Has(v.pl, p) THEN v.pl[p] ELSE defaultLocations[p]]
        providers == SelectSeq(order, LAMBDA p : p \in DOMAIN providerLocations)
        names == [k \in DOMAIN providers |-> providerLocations[providers[k]]]
    IN IF Len(v.errors) > 0
       THEN [itm |-> itm, errors |-> v.errors]
       ELSE [itm |-> [itm EXCEPT !.backup.locations = names,
                                 !.snapshotLocations = @ \o names],
             errors |-> << >>]

\* lines 165-188 of processBackup: the request with its version, expiration,
\* validation errors and next phase
ValidatedRequest(original, defaultLocations, order) ==
    LET request == NewRequest([original EXCEPT
                        !.version = 1,
                        !.expiration = IF original.ttl > 0 THEN "now+ttl" ELSE @])
        a == getLocationAndValidate(request, DefaultBackupLocation)
        b == defaultAndValidateSnapshotLocations(a.itm, defaultLocations, order)
        errors == original.validationErrors \o a.errors \o b.errors
    IN [b.itm EXCEPT !.backup.validationErrors = errors,
                     !.backup.phase = IF Len(errors) > 0 THEN "FailedValidation"
                                      ELSE "InProgress"]

\* jsonpatch.CreateMergePatch: the fields of updated that differ from original
CreateMergePatch(original, updated) ==
    [f \in { g \in DOMAIN updated : updated[g] # original[g] } |-> updated[f]]

\* the Backup the API server stores after a merge patch: the patch names no
\* resourceVersion, so it is applied to whatever is stored
Patched(stored, patch) ==
    [f \in DOMAIN stored |-> IF f \in DOMAIN patch THEN patch[f] ELSE stored[f]]

\* runBackup. early: a temp file, the plugin manager or the backup store fails
\* before Backup is called; otherwise the backupper and PutBackup succeed or fail
RunOutcomes == [early : BOOLEAN, backupFails : BOOLEAN, putFails : BOOLEAN]
runBackup(request, o) ==
    IF o.early THEN [request |-> request, err |-> TRUE, backed |-> FALSE, put |-> FALSE]
    ELSE [request |-> [request EXCEPT !.backup.phase = IF o.backupFails THEN "Failed"
                                                       ELSE "Completed"],
          err |-> o.backupFails \/ o.putFails, backed |-> TRUE, put |-> ~o.putFails]

\* the Backups of the model, and the default snapshot locations of the server
LocationNames == {"aws-east", "aws-west", "gcp-1", "nope"}
LocationLists == UNION { [1..n -> LocationNames] : n \in 0..MaxLocations }
DefaultLocationMaps ==
    { EmptyMap, [p \in {"aws"} |-> "aws-west"],
      [p \in {"aws", "gcp"} |-> IF p = "aws" THEN "aws-east" ELSE "gcp-1"] }
NewBackup(phase, storageLocation, locations) ==
    [phase |-> phase, version |-> 0, expiration |-> "", ttl |-> 1,
     storageLocation |-> storageLocation, label |-> "", locations |-> locations,
     validationErrors |-> << >>]
Backups ==
    { NewBackup(ph, sl, locs) :
        ph \in {"", "New", "Completed"}, sl \in {"", "missing"},
        locs \in { << >>, << "aws-west" >>, << "nope" >> } }

\* what one processBackup call has done so far
NoCall == [seen |-> "none", patched |-> << >>, ran |-> FALSE, tracked |-> FALSE, ret |-> "none"]

\* a controller instance whose informer has not delivered the Backup yet
NewInstance ==
    [pc |-> "new", cache |-> NewBackup("none", "", << >>),
     original |-> NewBackup("none", "", << >>),
     request |-> NewRequest(NewBackup("none", "", << >>)),
     tracker |-> FALSE, err |-> FALSE, backed |-> 0, put |-> 0, call |-> NoCall]

\* one Backup in the API server and up to MaxInstances controller instances, each
\* with its own informer cache, queue and tracker
InitBackup ==
    /\ NoRestore
    /\ prio = NoPrio /\ ar = NoArchive /\ pva = NoPVA
    /\ \E b \in Backups, d \in DefaultLocationMaps \ {EmptyMap}, n \in 1..MaxInstances :
          bc = [instances |-> 1..n, api |-> b, phases |-> << b.phase >>, defaults |-> d,
                faults |-> 0, inst |-> [i \in 1..n |-> NewInstance]]

\* the informer's AddFunc, lines 113-133: only a new Backup is queued
AddFunc ==
    /\ \E i \in bc.instances :
          /\ bc.inst[i].pc = "new"
          /\ bc' = [bc EXCEPT !.inst[i].cache = bc.api,
                              !.inst[i].pc = IF bc.api.phase \in {"", "New"} THEN "queued"
                                             ELSE "skipped"]
    /\ UNCHANGED << engineVars, ar, pva, prio >>

\* the informer sees an update of the Backup: the lister returns it from now on
InformerUpdate ==
    /\ \E i \in bc.instances :
          /\ bc.inst[i].pc # "new"
          /\ bc.inst[i].cache # bc.api
          /\ bc' = [bc EXCEPT !.inst[i].cache = bc.api]
    /\ UNCHANGED << engineVars, ar, pva, prio >>

\* processBackup, lines 141-188: the Backup from the lister, the phase check, the
\* request and its validation
ProcessBackup ==
    /\ \E i \in bc.instances, order \in MapOrders :
          /\ bc.inst[i].pc = "queued"
          /\ LET original == bc.inst[i].cache
             IN IF original.phase \notin {"", "New"}
                THEN bc' = [bc EXCEPT !.inst[i].pc = "returned",
                                      !.inst[i].call = [NoCall EXCEPT !.seen = original.phase,
                                                                      !.ret = "nil"]]
                ELSE bc' = [bc EXCEPT
                               !.inst[i].pc = "patching",
                               !.inst[i].original = original,
                               !.inst[i].request = ValidatedRequest(original, bc.defaults, order),
                               !.inst[i].call = [NoCall EXCEPT !.seen = original.phase]]
    /\ UNCHANGED << engineVars, ar, pva, prio >>

\* lines 190-207: the status patch. When it fails processBackup returns the error
\* and the key is processed again; when it succeeds a Backup that failed validation
\* is done and any other is added to the tracker
PatchStatus ==
    /\ \E i \in bc.instances, ok \in BOOLEAN :
          LET me == bc.inst[i]
              updatedBackup == Patched(bc.api, CreateMergePatch(me.original, me.request.backup))
              failed == updatedBackup.phase = "FailedValidation"
          IN /\ me.pc = "patching"
             /\ ok \/ bc.faults < MaxFaults
             /\ IF ~ok
                THEN bc' = [bc EXCEPT
                               !.faults = @ + 1,
                               !.inst[i].pc = "queued",
                               !.inst[i].call.patched =
                                   Append(@, [phase |-> me.request.backup.phase, ok |-> FALSE]),
                               !.inst[i].call.ret = "err"]
                ELSE bc' = [bc EXCEPT
                               !.api = updatedBackup,
                               !.phases = Append(@, updatedBackup.phase),
                               !.inst[i].original = updatedBackup,
                               !.inst[i].request.backup = updatedBackup,
                               !.inst[i].pc = IF failed THEN "returned" ELSE "running",
                               !.inst[i].tracker = ~failed,
                               !.inst[i].call.patched =
                                   Append(@, [phase |-> me.request.backup.phase, ok |-> TRUE]),
                               !.inst[i].call.tracked = ~failed,
                               !.inst[i].call.ret = IF failed THEN "nil" ELSE "none"]
    /\ UNCHANGED << engineVars, ar, pva, prio >>

\* lines 214-220: runBackup returns; an error makes the phase Failed
RunBackup ==
    /\ \E i \in bc.instances, o \in RunOutcomes :
          LET me == bc.inst[i]
              r == runBackup(me.request, o)
          IN /\ me.pc = "running"
             /\ bc' = [bc EXCEPT
                          !.inst[i].pc = "final",
                          !.inst[i].request = IF r.err THEN [r.request EXCEPT
                                                                !.backup.phase = "Failed"]
                                              ELSE r.request,
                          !.inst[i].err = r.err,
                          !.inst[i].backed = IF r.backed THEN @ + 1 ELSE @,
                          !.inst[i].put = IF r.put THEN @ + 1 ELSE @,
                          !.inst[i].call.ran = TRUE]
    /\ UNCHANGED << engineVars, ar, pva, prio >>

\* mutant: the Backup leaves the tracker only when the final patch was applied
FinalPatchLeavesTracked ==
    /\ \E i \in bc.instances, ok \in BOOLEAN :
          /\ bc.inst[i].pc = "final"
          /\ ok \/ bc.faults < MaxFaults
          /\ bc' = [bc EXCEPT
                       !.faults = IF ok THEN @ ELSE @ + 1,
                       !.api = IF ok THEN Patched(@, CreateMergePatch(bc.inst[i].original,
                                                               bc.inst[i].request.backup))
                               ELSE @,
                       !.phases = IF ok THEN Append(@, bc.inst[i].request.backup.phase) ELSE @,
                       !.inst[i].pc = "returned",
                       !.inst[i].tracker = ~ok,
                       !.inst[i].call.patched =
                           Append(@, [phase |-> bc.inst[i].request.backup.phase, ok |-> ok]),
                       !.inst[i].call.ret = "nil"]
    /\ UNCHANGED << engineVars, ar, pva, prio >>

\* lines 222-227: the final patch, whose failure is logged, the deferred removal
\* from the tracker, and the return
FinalPatch ==
    /\ \E i \in bc.instances, ok \in BOOLEAN :
          LET me == bc.inst[i]
              updatedBackup == Patched(bc.api, CreateMergePatch(me.original, me.request.backup))
          IN /\ me.pc = "final"
             /\ ok \/ bc.faults < MaxFaults
             /\ bc' = [bc EXCEPT
                          !.faults = IF ok THEN @ ELSE @ + 1,
                          !.api = IF ok THEN updatedBackup ELSE @,
                          !.phases = IF ok THEN Append(@, updatedBackup.phase) ELSE @,
                          !.inst[i].pc = "returned",
                          !.inst[i].tracker = FALSE,
                          !.inst[i].call.patched =
                              Append(@, [phase |-> me.request.backup.phase, ok |-> ok]),
                          !.inst[i].call.ret = "nil"]
    /\ UNCHANGED << engineVars, ar, pva, prio >>

NextBackup ==
    \/ AddFunc
    \/ InformerUpdate
    \/ ProcessBackup
    \/ PatchStatus
    \/ RunBackup
    \/ FinalPatch

\* the controller instances working on one Backup
SpecBackup == InitBackup /\ [][NextBackup]_vars

\* the same, where an instance that can take a step takes one: every call of the
\* controller returns
SpecBackupFair == SpecBackup /\ WF_vars(NextBackup)

\* defaultAndValidateSnapshotLocations applied to requests of its own
InitLocations ==
    /\ NoRestore
    /\ prio = NoPrio /\ ar = NoArchive /\ pva = NoPVA
    /\ \E locs \in LocationLists, d \in DefaultLocationMaps :
          bc = [instances |-> {}, itm |-> NewRequest(NewBackup("New", "default", locs)),
                defaults |-> d, done |-> FALSE,
                out |-> [itm |-> NewRequest(NewBackup("New", "default", locs)),
                         errors |-> << >>]]

DefaultAndValidate ==
    /\ bc.instances = {} /\ ~bc.done
    /\ \E order \in MapOrders :
          bc' = [bc EXCEPT !.done = TRUE,
                           !.out = defaultAndValidateSnapshotLocations(bc.itm, bc.defaults, order)]
    /\ UNCHANGED << engineVars, ar, pva, prio >>

SpecLocations == InitLocations /\ [][DefaultAndValidate]_vars

\* ------------------------------------------------------------------ claims
\* the backed-up object an item event or a create call is about, as the archive holds it
ArchiveObj(res, ns, file) == Unmarshal(ArchiveGet(res, ns, file).bytes).obj
ItemEvent == ev.kind = "item"
NamespaceEvent == ev.kind = "ns"
CreateCalled == ev.create # << >>
Silent == IsEmpty(ev.dw) /\ IsEmpty(ev.de)

ActionKinds == {"prepare", "prepareWarning"}
OfCreate(msgs) == SelectSeq(msgs, LAMBDA m : m.kind \notin ActionKinds)
CreateMsgs(r) ==
    [ark |-> OfCreate(r.ark), cluster |-> OfCreate(r.cluster),
     namespaces |-> [n \in DOMAIN r.namespaces |-> OfCreate(r.namespaces[n])]]
InScope(r, ns, msgs) ==
    /\ r.ark = << >>
    /\ IF ns = "" THEN r.cluster = msgs ELSE r.cluster = << >>
    /\ \A n \in DOMAIN r.namespaces : r.namespaces[n] = (IF n = ns THEN msgs ELSE << >>)
    /\ (ns # "" /\ msgs # << >>) => ns \in DOMAIN r.namespaces
AlreadyExists == CreateCalled /\ ev.create[1].outcome = "exists" /\ ev.live # EmptyMap

\* C2: when create answers already-exists for an item that is not a ServiceAccount and
\* the live object, stripped of server-populated metadata and status and given the
\* restore labels, differs from the prepared object, exactly one "not restored,
\* differs" warning is recorded in the item's scope, nothing is patched or otherwise
\* changed, and no error is recorded for the create; when the two are identical,
\* nothing is recorded.
C2_ConflictWarning ==
    (ItemEvent /\ AlreadyExists /\ ev.res # ServiceAccounts) =>
        /\ ~ev.mutated
        /\ IsEmpty(CreateMsgs(ev.de))
        /\ IF ev.live # ev.create[1].obj
           THEN InScope(CreateMsgs(ev.dw), ev.ns, << Msg("differs", ev.res, ev.file) >>)
           ELSE IsEmpty(CreateMsgs(ev.dw))

C2_Witness ==
    /\ ItemEvent /\ AlreadyExists /\ ev.res = ConfigMaps /\ ev.path = "differs"
    /\ \E i \in DOMAIN creates : creates[i].name = "p1" /\ creates[i].outcome = "exists"

\* what the selector of the restore request admits
SelectorAdmits(labels) ==
    \/ restore.labelSelector.nil
    \/ \A k \in DOMAIN restore.labelSelector.matchLabels :
          Has(labels, k) /\ labels[k] = restore.labelSelector.matchLabels[k]

\* C3: with a label selector on the request, an item whose labels do not match is
\* never passed to create and records nothing; an item that matches is not skipped by
\* the selector; a request without a selector admits every item.
C3_LabelSelector ==
    /\ \A i \in DOMAIN creates :
          SelectorAdmits(GetLabels(ArchiveObj(creates[i].res, creates[i].ns, creates[i].file)))
    /\ (ItemEvent /\ ev.path = "labelSkip") =>
          /\ ~SelectorAdmits(GetLabels(ArchiveObj(ev.res, ev.ns, ev.file)))
          /\ ~CreateCalled /\ Silent /\ ~ev.mutated
    /\ (ItemEvent /\ ev.path \notin {"getErr", "decodeErr", "labelSkip"}) =>
          SelectorAdmits(GetLabels(ArchiveObj(ev.res, ev.ns, ev.file)))

C3_Witness ==
    /\ ItemEvent /\ ev.path = "labelSkip" /\ ev.name = "pv3"
    /\ ~restore.labelSelector.nil
    /\ \E i \in DOMAIN creates : creates[i].name = "pv2"

\* a Pod that succeeded or failed, a Job with a completion time
Completed(res, obj) ==
    \/ /\ res = Pods
       /\ Has(obj, "status") /\ Has(obj.status, "phase")
       /\ obj.status.phase \in {"Succeeded", "Failed"}
    \/ /\ res = Jobs
       /\ Has(obj, "status") /\ Has(obj.status, "completionTime")
       /\ obj.status.completionTime # ""

\* C4: a Pod whose phase is Succeeded or Failed and a Job with a non-empty completion
\* time are never passed to create and record nothing; a Pod in another phase, a Job
\* without a completion time and an item of another type are not skipped as completed.
C4_CompletedSkipped ==
    /\ \A i \in DOMAIN creates :
          ~Completed(creates[i].res, ArchiveObj(creates[i].res, creates[i].ns, creates[i].file))
    /\ (ItemEvent /\ ev.path = "completed") =>
          /\ Completed(ev.res, ArchiveObj(ev.res, ev.ns, ev.file))
          /\ ~CreateCalled /\ Silent /\ ~ev.mutated
    /\ (ItemEvent /\ ev.path \notin {"getErr", "decodeErr", "labelSkip", "completed"}) =>
          ~Completed(ev.res, ArchiveObj(ev.res, ev.ns, ev.file))

C4_Witness ==
    /\ ItemEvent /\ ev.path = "completed" /\ ev.res = Jobs
    /\ \E i \in DOMAIN creates : creates[i].name = "p1"
    /\ ~\E i \in DOMAIN creates : creates[i].name \in {"p2", "p3"}

\* the PersistentVolume of the archive, its snapshot and its reclaim policy
ArchivePV(file) == ArchiveObj(PersistentVolumes, "", file)
NoSnapshot(name) == ~Has(backup.volumeBackups, name)
ReclaimPolicy(obj) ==
    IF Has(obj, "spec") THEN GetOr(obj.spec, "persistentVolumeReclaimPolicy", "") ELSE ""
PVEvent == ItemEvent /\ ev.res = PersistentVolumes
BeforePV == {"getErr", "decodeErr", "labelSkip", "clientErr"}
PVCreates == { i \in DOMAIN creates : creates[i].res = PersistentVolumes }

\* C5: a PersistentVolume without a snapshot whose reclaim policy is Delete is never
\* passed to create and, once processed, its name is in the provisioning set; one
\* whose reclaim policy is Retain is passed to create with its recorded volume
\* identifier, no block-store call is made for it, and it is not in the provisioning set.
C5_NoSnapshotByPolicy ==
    /\ \A i \in PVCreates :
          ~(NoSnapshot(creates[i].name) /\ ReclaimPolicy(ArchivePV(creates[i].file)) = "Delete")
    /\ (PVEvent /\ ev.path \notin BeforePV /\ NoSnapshot(ev.name)
          /\ ReclaimPolicy(ArchivePV(ev.file)) = "Delete") =>
          /\ ev.name \in ctx.pvsToProvision
          /\ ~CreateCalled /\ ev.name \notin bsCalls /\ Silent
    /\ (PVEvent /\ ev.path \notin BeforePV /\ NoSnapshot(ev.name)
          /\ ReclaimPolicy(ArchivePV(ev.file)) = "Retain") =>
          /\ ev.name \notin ctx.pvsToProvision
          /\ ev.name \notin bsCalls
          /\ ev.path # "watchErr" =>
                /\ CreateCalled
                /\ ev.create[1].obj.spec.volumeID = ArchivePV(ev.file).spec.volumeID
                /\ ReclaimPolicy(ev.create[1].obj) = "Retain"

C5_Witness ==
    /\ PVEvent /\ ev.name = "pv2" /\ ev.path = "created"
    /\ "pv1" \in ctx.pvsToProvision
    /\ ~\E i \in PVCreates : creates[i].name = "pv1"

\* the three outcomes of a PersistentVolume
RestoredFromSnapshot ==
    { creates[i].name : i \in { j \in PVCreates :
          \E k \in DOMAIN volumes : /\ volumes[k].pv = creates[j].name
                                    /\ creates[j].obj.spec.volumeID = volumes[k].id } }
RestoredUnchanged ==
    { creates[i].name : i \in { j \in PVCreates :
          creates[j].obj.spec.volumeID = ArchivePV(creates[j].file).spec.volumeID } }

\* C6: within one Restore a PersistentVolume is restored from its snapshot, or created
\* unchanged, or left to the provisioning set, and never two of these: a volume of the
\* provisioning set is neither created nor the subject of a block-store call.
C6_OnePVOutcome ==
    /\ RestoredFromSnapshot \cap RestoredUnchanged = {}
    /\ RestoredFromSnapshot \cap ctx.pvsToProvision = {}
    /\ RestoredUnchanged \cap ctx.pvsToProvision = {}
    /\ ctx.pvsToProvision \cap bsCalls = {}
    /\ ctx.pvsToProvision \cap { creates[i].name : i \in PVCreates } = {}
    /\ RestoredFromSnapshot \subseteq bsCalls
    /\ RestoredUnchanged \cap bsCalls = {}

C6_Witness ==
    /\ pc = "done"
    /\ "pv3" \in RestoredFromSnapshot
    /\ "pv2" \in RestoredUnchanged
    /\ "pv1" \in ctx.pvsToProvision

\* the binding of a PersistentVolumeClaim to its volume
PVCEvent == ItemEvent /\ ev.res = PersistentVolumeClaims
BindingAnnotations == {BindCompleted, BoundByController}

\* C7: a PersistentVolumeClaim whose volume is in the provisioning set when the claim
\* is processed is created without spec.volumeName and without the annotations
\* bind-completed and bound-by-controller; any other claim keeps all three.
C7_ClaimBinding ==
    (PVCEvent /\ CreateCalled) =>
        LET orig == ArchiveObj(ev.res, ev.ns, ev.file)
            sent == ev.create[1].obj
        IN IF Has(orig.spec, "volumeName") /\ orig.spec.volumeName \in ctx.pvsToProvision
           THEN /\ ~Has(sent.spec, "volumeName")
                /\ DOMAIN GetAnnotations(sent) = DOMAIN GetAnnotations(orig) \ BindingAnnotations
           ELSE /\ sent.spec = orig.spec
                /\ GetAnnotations(sent) = GetAnnotations(orig)

C7_Witness ==
    /\ PVCEvent /\ CreateCalled /\ ev.name = "pvc2"
    /\ BindingAnnotations \subseteq DOMAIN GetAnnotations(ev.create[1].obj)
    /\ "pv1" \in ctx.pvsToProvision
    /\ \E i \in DOMAIN creates :
          /\ creates[i].name = "pvc1"
          /\ ~Has(creates[i].obj.spec, "volumeName")
          /\ BindingAnnotations \cap DOMAIN GetAnnotations(creates[i].obj) = {}

\* the items of the archive that a fault-free Restore is to create
Restorable(x) ==
    LET u == Unmarshal(x.bytes) IN
    /\ u.ok
    /\ x.res \in Range(ctx.prioritizedResources)
    /\ ShouldInclude([includes |-> restore.includedNamespaces,
                      excludes |-> restore.excludedNamespaces], x.ns)
    /\ SelectorAdmits(GetLabels(u.obj))
    /\ ~Completed(x.res, u.obj)
    /\ ~(x.res = Pods /\ Has(GetAnnotations(u.obj), MirrorPodAnnotationKey))
Remapped == { i \in DOMAIN BackupFiles : BackupFiles[i].ns \in DOMAIN restore.namespaceMapping }

\* C8: under a namespace mapping A -> B every item the archive holds under A is created
\* in B with its namespace field set to B; B is ensured before, from the backed-up
\* namespace object of A when the archive has it and as a bare object named B
\* otherwise, and the ensure call is skipped when B is verified already.
C8_Remapped ==
    /\ (pc = "done" /\ result.returned /\ faults = 0) =>
          \A i \in Remapped :
             LET x == BackupFiles[i]
                 B == restore.namespaceMapping[x.ns]
             IN Restorable(x) =>
                   \E j \in DOMAIN creates :
                      /\ creates[j].res = x.res /\ creates[j].ns = B
                      /\ GetName(creates[j].obj) = GetName(Unmarshal(x.bytes).obj)
                      /\ creates[j].obj.metadata.namespace = B
    /\ (NamespaceEvent /\ ev.called) =>
          /\ ~ev.verified
          /\ ev.nsObj = getNamespace(ev.iter, ev.ns, ~ev.readable)
          /\ ~ev.readable => ev.nsObj = BareNamespace(ev.ns)
    /\ (NamespaceEvent /\ ev.verified) => ~ev.called

\* every message of a result
AllMsgs(r) ==
    Range(r.ark) \cup Range(r.cluster)
       \cup UNION { Range(r.namespaces[n]) : n \in DOMAIN r.namespaces }

\* C9: a second Restore of the same archive with the same request into the cluster the
\* first one left records no error and changes nothing: every create is answered
\* already-exists and the live object is found identical.
C9_SecondRunNoop ==
    (rerun /\ pc = "done" /\ faults = 0 /\ prev.result.returned /\ IsEmpty(prev.result.errs)) =>
        /\ IsEmpty(result.errs)
        /\ cluster = prev.cluster /\ clusterNS = prev.clusterNS /\ patches = {}
        /\ \A i \in DOMAIN creates : creates[i].outcome = "exists"
        /\ \A m \in AllMsgs(result.warnings) : m.kind # "differs"

\* the configured priorities the filter admits, resolved, in configured order
AdmittedPriorities ==
    SelectSeq([i \in DOMAIN prio.priorities |-> Canonical(prio.priorities[i])],
              LAMBDA g : ShouldInclude(prio.ie, g))
PrioRest == SubSeq(prio.out.ret, Len(AdmittedPriorities) + 1, Len(prio.out.ret))

\* C10: the order prioritizeResources returns is the configured priorities the filter
\* admits, in configured order, followed by every other discovered and admitted
\* resource type in ascending order of its group/resource string.
C10_PriorityOrder ==
    (prio.done /\ prio.out.ok) =>
        /\ Len(prio.out.ret) >= Len(AdmittedPriorities)
        /\ SubSeq(prio.out.ret, 1, Len(AdmittedPriorities)) = AdmittedPriorities
        /\ Range(PrioRest) = { g \in DiscoveredSet(prio.disc) :
                                 ShouldInclude(prio.ie, g) /\ g \notin Range(AdmittedPriorities) }
        /\ \A i, j \in DOMAIN PrioRest : i < j => ~StrLess(PrioRest[j], PrioRest[i])

C10_Witness ==
    /\ prio.done /\ prio.out.ok
    /\ Len(prio.priorities) = 2
    /\ Len(AdmittedPriorities) = 1
    /\ Len(PrioRest) >= 3
    /\ prio.disc = FullDiscovery

\* the configured priority entries discovery does not know
Unresolvable ==
    { i \in DOMAIN prio.priorities : Canonical(prio.priorities[i]) \notin DiscoveredSet(prio.disc) }

\* C11: prioritizeResources returns an error and no order when a configured priority
\* entry cannot be resolved by discovery, whether or not the filter admits the entry;
\* when every entry resolves the call succeeds, an entry the filter excludes is left
\* out, and nothing the filter excludes is in the returned order.
C11_PriorityFailure ==
    prio.done =>
        /\ Unresolvable # {} => (~prio.out.ok /\ prio.out.ret = << >>)
        /\ Unresolvable = {} => prio.out.ok
        /\ prio.out.ok => \A g \in Range(prio.out.ret) : ShouldInclude(prio.ie, g)

C11_Witness ==
    /\ prio.done /\ ~prio.out.ok
    /\ prio.priorities = << "po", "nodes" >>
    /\ prio.disc = FullDiscovery
    /\ ~ShouldInclude(prio.ie, "nodes") /\ ShouldInclude(prio.ie, "pods")

\* the requests and configurations whose setup cannot succeed
ValidExpressions == {"", "app=a"}
SetupFails ==
    \/ ~restore.labelSelector.nil /\ ~restore.labelSelector.valid
    \/ \E i \in DOMAIN kr.resourcePriorities :
          Canonical(kr.resourcePriorities[i]) \notin DiscoveredSet(kr.discovery)
    \/ \E i \in DOMAIN actions :
          ~actions[i].appliesTo.ok \/ actions[i].appliesTo.labelSelector \notin ValidExpressions
SetupFailure == ev.kind = "begin" /\ ev.path # ""
NothingIssued ==
    /\ creates = << >> /\ patches = {} /\ ensures = << >> /\ bsCalls = {}
    /\ ctx.resourceWatches = << >> /\ ctx.pvsToProvision = {}
    /\ rtasks = {} /\ gtasks = {}

\* C12: when the label selector cannot be built, the priorities or the actions cannot
\* be resolved, or the archive cannot be extracted, Restore returns no warnings and
\* errors whose system list holds that failure alone, having issued no namespace
\* create, item create, patch, watch or block-store call.
C12_SetupAborts ==
    /\ (SetupFails /\ pc # "start") =>
          SetupFailure /\ ev.path \in {"selector", "priorities", "actions"}
    /\ SetupFailure =>
          /\ pc = "done" /\ result.returned
          /\ IsEmpty(result.warnings)
          /\ result.errs.ark = << Msg(ev.path, "", "") >>
          /\ result.errs.cluster = << >> /\ DOMAIN result.errs.namespaces = {}
          /\ NothingIssued

C12_Witness ==
    /\ SetupFailure /\ ev.path = "actions" /\ result.returned
    /\ Len(actions) = 2 /\ actions[2].appliesTo.labelSelector \notin ValidExpressions

\* the entries of a secret list, and the union that keeps the live entries first
Entries(obj, field) == GetOr(obj, field, << >>)
IsMergeOf(merged, live, backedUp) ==
    /\ SubSeq(merged, 1, Len(live)) = live
    /\ Range(merged) = Range(live) \cup Range(backedUp)
    /\ \A i, j \in DOMAIN merged : merged[i] = merged[j] => (i = j \/ (i <= Len(live) /\ j <= Len(live)))
SAConflict == ItemEvent /\ AlreadyExists /\ ev.res = ServiceAccounts
SALive == cluster[Key(ev.res, ev.ns, ev.name)]

\* C13: when create answers already-exists for a ServiceAccount that differs from the
\* live one, one patch is applied whose secrets and image pull secrets are the live
\* entries followed by the backed-up entries the live account lacks; when that merge
\* equals the live account nothing is sent; a failing merge, patch generation or patch
\* adds one warning and never an error.
C13_ServiceAccountMerge ==
    SAConflict =>
        /\ IsEmpty(CreateMsgs(ev.de))
        /\ IF ev.live = ev.create[1].obj
           THEN ev.path = "same" /\ ~ev.mutated /\ IsEmpty(CreateMsgs(ev.dw))
           ELSE CASE ev.path = "patched" ->
                       /\ Cardinality(ev.patch) = 1
                       /\ \A p \in ev.patch :
                             /\ IsMergeOf(p.secrets, Entries(ev.live, "secrets"),
                                          Entries(ev.create[1].obj, "secrets"))
                             /\ IsMergeOf(p.imagePullSecrets,
                                          Entries(ev.live, "imagePullSecrets"),
                                          Entries(ev.create[1].obj, "imagePullSecrets"))
                             /\ SALive.secrets = p.secrets
                             /\ SALive.imagePullSecrets = p.imagePullSecrets
                       /\ IsEmpty(CreateMsgs(ev.dw))
                  [] ev.path = "mergeNoop" ->
                       /\ Range(Entries(ev.create[1].obj, "secrets"))
                             \subseteq Range(Entries(ev.live, "secrets"))
                       /\ Range(Entries(ev.create[1].obj, "imagePullSecrets"))
                             \subseteq Range(Entries(ev.live, "imagePullSecrets"))
                       /\ ~ev.mutated /\ IsEmpty(CreateMsgs(ev.dw))
                  [] ev.path \in {"mergeErr", "genPatchErr", "patchErr"} ->
                       /\ ~ev.mutated
                       /\ \E k \in {"merge", "genPatch", "patch"} :
                             InScope(CreateMsgs(ev.dw), ev.ns, << Msg(k, ev.res, ev.file) >>)
                  [] OTHER -> FALSE

C13_Witness ==
    /\ SAConflict /\ ev.path = "mergeNoop" /\ ev.name = "sa2"
    /\ \E p \in patches : p.secrets = << "s0", "s1", "s2" >> /\ p.imagePullSecrets = << "i1" >>
    /\ cluster[Key(ServiceAccounts, "ns1", "sa1")].secrets = << "s0", "s1", "s2" >>

\* the item failures that are recorded as errors, and the message of each
ItemFailures == {"getErr", "decodeErr", "createErr"}
FailureMsg(path) ==
    CASE path = "getErr" -> "getItem"
      [] path = "decodeErr" -> "decode"
      [] OTHER -> "create"

\* C14: an item that cannot be fetched or decoded, or whose create fails with an error
\* other than already-exists, adds exactly one error to the item's scope (the cluster
\* list when the namespace is empty, the target namespace's list otherwise), nothing to
\* the system list, and the loop goes on with the next item of the resource type and
\* namespace.
C14_ItemErrors ==
    (ItemEvent /\ ev.path \in ItemFailures) =>
        /\ InScope(CreateMsgs(ev.de), ev.ns, << Msg(FailureMsg(ev.path), ev.res, ev.file) >>)
        /\ IsEmpty(CreateMsgs(ev.dw))
        /\ pc = "items"
        /\ frame.resource = ev.res /\ frame.namespace = ev.ns
        /\ frame.fi - 1 \in DOMAIN frame.files
        /\ frame.files[frame.fi - 1] = ev.file

C14_Witness ==
    /\ ItemEvent /\ ev.path = "created" /\ ev.name = "cm1"
    /\ NsList(frame.errs, "ns1") = << Msg("decode", ConfigMaps, "bad.json") >>
    /\ \E m \in Range(errs.cluster) : m.kind = "create" /\ m.res = PersistentVolumes

\* the items the archive holds at cluster scope, the namespace type apart
ClusterFiles == { i \in DOMAIN BackupFiles :
                    BackupFiles[i].ns = "" /\ BackupFiles[i].res # Namespaces }
CreatesOf(x) == { j \in DOMAIN creates : creates[j].res = x.res /\ creates[j].file = x.file }
CompleteRun == pc = "done" /\ result.returned /\ faults = 0 /\ ~SetupFailure

\* C15: with cluster-resource restoration disabled no item of a cluster-scoped
\* resource type is created, no client or watch is opened for such a type, no
\* block-store call is made and the provisioning set stays empty; with the flag unset
\* or true each cluster-scoped type is restored once, with an empty namespace.
C15_ClusterResources ==
    /\ restore.includeClusterResources = "false" =>
          /\ \A j \in DOMAIN creates : creates[j].ns # ""
          /\ \A i \in ClusterFiles : CreatesOf(BackupFiles[i]) = {}
          /\ ~(ItemEvent /\ ev.ns = "")
          /\ frame.namespace = "" => ~frame.resourceClient
          /\ ctx.resourceWatches = << >> /\ rtasks = {}
          /\ bsCalls = {} /\ volumes = << >>
          /\ ctx.pvsToProvision = {}
    /\ restore.includeClusterResources # "false" =>
          \A i \in ClusterFiles :
             LET x == BackupFiles[i] IN
             /\ Cardinality(CreatesOf(x)) <= 1
             /\ \A j \in CreatesOf(x) :
                   creates[j].ns = "" /\ GetOr(creates[j].obj.metadata, "namespace", "") = ""
             /\ (CompleteRun /\ Restorable(x)) =>
                   \/ CreatesOf(x) # {}
                   \/ GetName(Unmarshal(x.bytes).obj) \in ctx.pvsToProvision
                   \/ \E m \in Range(result.errs.cluster) : m.res = x.res /\ m.item = x.file

C15_Witness ==
    /\ restore.includeClusterResources = "false"
    /\ pc = "done" /\ result.returned
    /\ \E j \in DOMAIN creates : creates[j].res = PersistentVolumeClaims

\* the Write calls made, and the reader after a successful Extract of the closed stream
Written == { ar.written[i] : i \in 1 .. Len(ar.written) }
WrittenTo(gr, ns) == { w \in Written : w.res = gr /\ w.ns = ns }
Extracted == ar.rd.state = "extracted"
LastWrite(i) ==
    \A j \in (i + 1) .. Len(ar.written) :
        << ar.written[j].res, ar.written[j].ns, ar.written[j].name >>
            # << ar.written[i].res, ar.written[i].ns, ar.written[i].name >>

\* C16: after Write calls, Close and Extract, Get(resource, namespace, name.json) is
\* the JSON encoding of the item written for that triple (the last one when a triple
\* was written more than once), ListContents(resource, namespace) is exactly the
\* written names with the .json suffix, and ListNamespaces(resource) is exactly the
\* namespaces written for a resource that was only written with a namespace.
C16_RoundTrip ==
    Extracted =>
        /\ \A i \in 1 .. Len(ar.written) :
              LastWrite(i) =>
                  RdGet(ar.rd, ar.written[i].res, ar.written[i].ns,
                        ar.written[i].name \o ".json")
                      = [ok |-> TRUE, bytes |-> Marshal(ar.written[i].item)]
        /\ \A gr \in ArResources, ns \in ArNamespaces :
              WrittenTo(gr, ns) # {} =>
                  RdListContents(ar.rd, gr, ns)
                      = [ok |-> TRUE,
                         names |-> { w.name \o ".json" : w \in WrittenTo(gr, ns) }]
        /\ \A gr \in ArResources :
              (WrittenTo(gr, "") = {} /\ \E w \in Written : w.res = gr) =>
                  RdListNamespaces(ar.rd, gr)
                      = [ok |-> TRUE, names |-> { w.ns : w \in { v \in Written : v.res = gr } }]

C16_Witness ==
    /\ Extracted /\ Len(ar.written) = 2
    /\ ar.written[1].res = ar.written[2].res
    /\ ar.written[1].ns = "ns1" /\ ar.written[2].ns = "ns2"
    /\ ar.written[1].item # ar.written[2].item

\* what a reader is asked for: the written names, with and without the suffix
AskedNames == { name \o ".json" : name \in ArNames } \cup ArNames
NeverWritten(gr) == \A w \in Written : w.res # gr
AbsentItem(gr, ns, n) == \A w \in WrittenTo(gr, ns) : n # w.name \o ".json"
ScopeOf(gr) == RdGetResourceScope(ar.rd, gr)
ReaderErrors ==
    /\ \A gr \in ArResources :
          (NeverWritten(gr) \/ ScopeOf(gr).scope = "cluster") => ~RdListNamespaces(ar.rd, gr).ok
    /\ \A gr \in ArResources, ns \in ArNamespaces :
          /\ WrittenTo(gr, ns) = {} => ~RdListContents(ar.rd, gr, ns).ok
          /\ \A n \in AskedNames : AbsentItem(gr, ns, n) => ~RdGet(ar.rd, gr, ns, n).ok

\* C17: after Extract, GetResourceScope says cluster for a resource written with an
\* empty namespace, namespace for a resource written with a namespace and never with
\* an empty one, and not found without error for a resource never written;
\* ListNamespaces fails on a cluster-scoped or absent resource; ListContents and Get
\* fail on an absent resource, namespace or item.
C17_Scopes ==
    Extracted =>
        /\ \A gr \in ArResources :
              /\ WrittenTo(gr, "") # {} =>
                    ScopeOf(gr) = [ok |-> TRUE, found |-> TRUE, scope |-> "cluster"]
              /\ (WrittenTo(gr, "") = {} /\ ~NeverWritten(gr)) =>
                    ScopeOf(gr) = [ok |-> TRUE, found |-> TRUE, scope |-> "namespace"]
              /\ NeverWritten(gr) =>
                    ScopeOf(gr) = [ok |-> TRUE, found |-> FALSE, scope |-> ""]
        /\ ReaderErrors

C17_Witness ==
    /\ Extracted /\ Len(ar.written) = 2
    /\ ar.written[1].res = ar.written[2].res
    /\ ar.written[1].ns = "" /\ ar.written[2].ns = "ns1"
    /\ ~RdListNamespaces(ar.rd, ar.written[1].res).ok

\* C17 as the specification states it: namespace scope for every resource written
\* with a namespace
C17_AsStated ==
    Extracted =>
        /\ \A gr \in ArResources :
              /\ WrittenTo(gr, "") # {} =>
                    ScopeOf(gr) = [ok |-> TRUE, found |-> TRUE, scope |-> "cluster"]
              /\ (\E w \in Written : w.res = gr /\ w.ns # "") =>
                    ScopeOf(gr) = [ok |-> TRUE, found |-> TRUE, scope |-> "namespace"]
              /\ NeverWritten(gr) =>
                    ScopeOf(gr) = [ok |-> TRUE, found |-> FALSE, scope |-> ""]
        /\ ReaderErrors

\* C18: once the reader is closed, the temporary directory Extract made is gone,
\* whether Extract read the whole archive or failed part-way through it.
C18_CloseReleases == ar.rd.state = "closed" => ~ar.rd.dir

\* C19: when the main loop turns to a resource type, no readiness task spawned for
\* an earlier type is still waiting.
C19_TypeBarrier ==
    (ev.kind = "resource" /\ pc # "done") => \A t \in rtasks : t.state # "waiting"

\* C20: once Restore has returned from reading the archive, every readiness task and
\* every pod volume restore that was spawned has finished, and the error of every
\* failed pod volume restore is in the system list of the returned errors.
C20_AllJoined ==
    (pc = "done" /\ ctx # NoCtx) =>
        /\ \A t \in rtasks : t.state # "waiting"
        /\ \A t \in gtasks :
              /\ t.state # "running"
              /\ t.state = "failed" =>
                    \E i \in DOMAIN result.errs.ark :
                        result.errs.ark[i] = Msg("podVolumes", Pods, t.pod)

\* the watches opened by this Restore
Watches == { ctx.resourceWatches[i] : i \in DOMAIN ctx.resourceWatches }

\* C21: once Restore has returned from reading the archive every watch it opened is
\* stopped, and while the main loop still processes resource types no watch is
\* stopped, so no readiness task of a type in progress loses its watch.
C21_WatchesStopped ==
    /\ (pc = "done" /\ ctx # NoCtx) => \A w \in Watches : w.stopped
    /\ pc \notin {"done", "panic"} =>
          /\ \A w \in Watches : ~w.stopped
          /\ \A t \in rtasks : ~ctx.resourceWatches[t.watch].stopped

C21_Witness ==
    /\ pc = "done" /\ Watches # {}
    /\ ev.kind = "resource"
    /\ \E t \in rtasks : t.state = "waiting"

\* C22: every PersistentVolume that passed the PV restorer and went on to the create
\* call has a readiness task waiting for its own name, on the one watch of the type.
C22_TaskPerPV ==
    \A i \in DOMAIN creates :
        creates[i].res = PersistentVolumes =>
            \E t \in rtasks :
                t.pv = creates[i].name /\ ctx.resourceWatches[t.watch].res = PersistentVolumes

\* C23: once a Restore in which no collaborator failed has returned, the returned
\* warnings hold a timeout warning for every PV whose readiness wait timed out.
C23_TimeoutWarning ==
    (pc = "done" /\ ctx # NoCtx /\ faults = 0) =>
        \A t \in rtasks :
            t.state = "timeout" =>
                \E i \in DOMAIN result.warnings.ark :
                    result.warnings.ark[i] = Msg("pvTimeout", PersistentVolumes, t.pv)

\* what the actions added for the item of the last step
ActionErrors == { m \in AllMsgs(ev.de) : m.kind = "prepare" }
ActionWarnings == { m \in AllMsgs(ev.dw) : m.kind = "prepareWarning" }

\* C24: an item for which an action returned an error is abandoned: no create call
\* is issued for it.
C24_ErrorAbandons == (ItemEvent /\ ActionErrors # {}) => ~CreateCalled

\* C25: an action that returns a warning and no error never ends the restore
\* abnormally: the item is processed on to its create call.
C25_WarningContinues == pc # "panic" /\ (ItemEvent => ev.path # "panic")

\* the outcomes of an item that end its processing before the actions are reached
BeforeActions ==
    {"getErr", "decodeErr", "labelSkip", "completed", "clientErr", "mirror", "provision",
     "pvErr", "watchErr", "pvcErr"}
Admits(a, res, ns) ==
    /\ ShouldInclude(a.resourceIncludesExcludes, res)
    /\ (ns = "" \/ ShouldInclude(a.namespaceIncludesExcludes, ns))
Failing(a) == a.does \in {"error", "warnerr"}
Output(a, obj) == IF Failing(a) THEN obj ELSE Execute(a, obj).obj
\* the invocations the claim asks for, over the resolved actions in registration order
RECURSIVE ExpectedRuns(_, _)
ExpectedRuns(obj, i) ==
    IF i > Len(ctx.actions) THEN << >>
    ELSE IF Admits(ctx.actions[i], ev.res, ev.ns) /\ Matches(ctx.actions[i].selector, GetLabels(obj))
         THEN << [action |-> ctx.actions[i], obj |-> obj] >>
                  \o ExpectedRuns(Output(ctx.actions[i], obj), i + 1)
         ELSE ExpectedRuns(obj, i + 1)

\* C26: for an item that reaches the actions, Execute is invoked on exactly the
\* resolved actions whose resource filter admits the type, whose namespace filter
\* admits the target namespace (any, for a cluster-scoped item) and whose selector
\* matches the item's labels at that point, in registration order, each on the item
\* as the one before left it; the resolved tuples are those computed at the start.
C26_ActionsRun ==
    /\ (ItemEvent /\ ev.path \notin BeforeActions \cup {"panic"}) =>
          LET exp == ExpectedRuns(ArchiveObj(ev.res, ev.ns, ev.file), 1)
          IN /\ Len(ev.ran) = Len(exp)
             /\ \A j \in DOMAIN ev.ran :
                   /\ ev.ran[j].action = exp[j].action
                   /\ GetLabels(ev.ran[j].obj) = GetLabels(exp[j].obj)
                   /\ j > 1 => ev.ran[j].obj = Output(ev.ran[j - 1].action, ev.ran[j - 1].obj)
    /\ (ItemEvent /\ ev.path \in BeforeActions) => ev.ran = << >>
    /\ ctx # NoCtx => ctx.actions = resolveActions(actions, kr.discovery, 1).resolved

C26_Witness ==
    /\ ItemEvent /\ ev.res = Pods /\ ev.path = "created"
    /\ Len(ctx.actions) = 3 /\ Len(ev.ran) = 2
    /\ Matches(ctx.actions[3].selector, GetLabels(ArchiveObj(ev.res, ev.ns, ev.file)))
    /\ ~Matches(ctx.actions[3].selector, GetLabels(ev.create[1].obj))

\* C27: in a Restore without namespace mapping, once a client-construction failure of
\* a resource type is among the system errors, no further item of that resource type
\* is processed, in any namespace.
C27_TypeAbandoned ==
    DOMAIN restore.namespaceMapping = {} =>
        \A i \in DOMAIN errs.ark :
            errs.ark[i].kind = "client" => ~(ItemEvent /\ ev.res = errs.ark[i].res)

\* C28: a Restore that has opened the archive returns only after the main loop has
\* turned to every resource type of the prioritized order, whatever reads of the
\* archive failed on the way.
C28_AllTypesProcessed ==
    (pc = "done" /\ ctx # NoCtx) => ri > Len(ctx.prioritizedResources)

\* the PVs of the archive that the engine leaves to dynamic provisioning
ArchivePVsToProvision ==
    { GetName(ArchivePV(BackupFiles[i].file)) :
        i \in { j \in DOMAIN BackupFiles :
                  /\ BackupFiles[j].res = PersistentVolumes
                  /\ NoSnapshot(GetName(ArchivePV(BackupFiles[j].file)))
                  /\ ReclaimPolicy(ArchivePV(BackupFiles[j].file)) = "Delete" } }

\* C29: whatever the priority list, when a PersistentVolumeClaim is examined in a
\* Restore that restores the PersistentVolumes (cluster resources included, no label
\* selector, no collaborator failure), the provisioning set holds every PV of the
\* archive that is left to dynamic provisioning.
C29_ProvisioningSetFirst ==
    (/\ PVCEvent /\ faults = 0
     /\ restore.includeClusterResources # "false" /\ restore.labelSelector.nil
     /\ PersistentVolumes \in Range(ctx.prioritizedResources))
        => ArchivePVsToProvision \subseteq ctx.pvsToProvision

\* the Create calls that made a Pod carrying pod-volume-snapshot annotations
PodsWithSnapshots ==
    { i \in DOMAIN creates :
        /\ creates[i].res = Pods /\ creates[i].outcome = "created"
        /\ PodSnapshotAnnotation \in DOMAIN GetAnnotations(creates[i].obj) }
TasksOf(i) == { t \in gtasks : t.pod = creates[i].name /\ t.ns = creates[i].ns }
PodVolumeMsgs(msgs) == { j \in DOMAIN msgs : msgs[j].kind = "podVolumes" }

PVSpec(obj) == IF Has(obj, "spec") THEN obj.spec ELSE EmptyMap
RestoreDisabled(r, obj) ==
    \/ r.snapshotVolumes = "false"
    \/ r.restorePVs = "false"
    \/ GetName(obj) \notin DOMAIN r.volumeBackups

\* C31: executePVAction calls the block store for no item and returns a named item
\* with its volume id unchanged when the backup had snapshots disabled, the request
\* has PV restores disabled or there is no snapshot record for the name; whenever
\* it succeeds, the returned item has neither claimRef nor storageClassName; an item
\* without a name yields an error.
C31_PVActionReturnsEarly ==
    pva.done =>
        /\ RestoreDisabled(pva.r, pva.obj) =>
              /\ ~pva.out.called /\ pva.out.volumes = << >>
              /\ (GetName(pva.obj) # "" /\ Has(pva.obj, "spec")) =>
                    /\ pva.out.ok
                    /\ pva.out.obj.spec.volumeID = pva.obj.spec.volumeID
                    /\ pva.out.obj = [pva.obj EXCEPT !.spec = Del(Del(@, "claimRef"),
                                                                  "storageClassName")]
        /\ pva.out.ok =>
              /\ ~Has(pva.out.obj.spec, "claimRef")
              /\ ~Has(pva.out.obj.spec, "storageClassName")
        /\ GetName(pva.obj) = "" => ~pva.out.ok /\ ~pva.out.called
C31_Witness ==
    /\ pva.done /\ pva.out.ok /\ ~pva.out.called
    /\ pva.r.restorePVs = "false" /\ pva.r.snapshotVolumes # "false"
    /\ Has(pva.r.volumeBackups, GetName(pva.obj)) /\ pva.r.blockStore
    /\ Has(pva.obj.spec, "claimRef") /\ ~Has(pva.out.obj.spec, "claimRef")

SnapshotRestore(name) ==
    /\ name \in DOMAIN backup.volumeBackups
    /\ backup.snapshotVolumes # "false" /\ restore.restorePVs # "false"
PVActionFailed ==
    /\ volumes' = volumes /\ creates' = creates
    /\ ctx'.resourceWatches = ctx.resourceWatches /\ rtasks' = rtasks
    /\ InScope(ev'.de, "", << Msg("pvAction", PersistentVolumes, ev'.file) >>)
    /\ IsEmpty(ev'.dw)
    /\ pc' = "items" /\ frame'.fi = frame.fi + 1
PVActionRestored ==
    /\ kr.blockStore
    /\ Len(volumes') = Len(volumes) + 1 /\ SubSeq(volumes', 1, Len(volumes)) = volumes
    /\ LET v == volumes'[Len(volumes')]
       IN /\ v.pv = ev'.name /\ v.snapshot = backup.volumeBackups[ev'.name]
          /\ v.id \notin { volumes[k].id : k \in DOMAIN volumes }
          /\ ev'.create # << >> =>
                /\ ev'.create[1].obj.spec.volumeID = v.id
                /\ v.id # ArchivePV(ev'.file).spec.volumeID
PVActionStep ==
    (ev' # ev /\ ev'.kind = "item" /\ ev'.res = PersistentVolumes /\ ev'.path \notin BeforePV) =>
        /\ ev'.path = "pvErr" => PVActionFailed
        /\ SnapshotRestore(ev'.name) =>
              /\ ~kr.blockStore => ev'.path = "pvErr"
              /\ ev'.path # "pvErr" => PVActionRestored

C33_TimeoutsAreWarnings ==
    (pc = "done" /\ ctx # NoCtx /\ faults = 0) =>
        /\ \A t \in gtasks :
              t.state = "failed" =>
                 /\ Msg("podVolumes", Pods, t.pod) \in AllMsgs(result.warnings)
                 /\ Msg("podVolumes", Pods, t.pod) \notin AllMsgs(result.errs)
        /\ \A t \in rtasks :
              t.state = "timeout" =>
                 /\ Msg("pvTimeout", PersistentVolumes, t.pv) \in AllMsgs(result.warnings)
                 /\ Msg("pvTimeout", PersistentVolumes, t.pv) \notin AllMsgs(result.errs)

\* C34: the order prioritizeResources returns holds no resource type twice, whatever
\* the configured priorities and whatever discovery lists.
C34_NoTypeTwice ==
    (prio.done /\ prio.out.ok) =>
        \A i, j \in DOMAIN prio.out.ret : i # j => prio.out.ret[i] # prio.out.ret[j]

\* the volumes the block store created during this Restore
VolumesOfThisRestore == { k \in DOMAIN volumes : k > Len(prev.volumes) }

\* C35: once a Restore in which no collaborator failed has returned, every volume it
\* created from a snapshot is the volume of a PersistentVolume it created, and it
\* created at most one volume per PV name.
C35_VolumesReferenced ==
    (pc = "done" /\ faults = 0) =>
        /\ \A k \in VolumesOfThisRestore :
              \E i \in PVCreates :
                  /\ creates[i].outcome = "created"
                  /\ creates[i].name = volumes[k].pv
                  /\ creates[i].obj.spec.volumeID = volumes[k].id
        /\ \A k, l \in VolumesOfThisRestore : volumes[k].pv = volumes[l].pv => k = l

\* a Backup whose spec cannot pass validation: a storage location or a snapshot
\* location nobody holds, or two snapshot locations of one provider
InvalidBackup(b) ==
    \/ b.storageLocation \notin {"", "default"}
    \/ \E k \in DOMAIN b.locations : b.locations[k] \notin {"aws-east", "aws-west", "gcp-1"}
    \/ \E k, l \in DOMAIN b.locations :
          /\ b.locations[k] # b.locations[l]
          /\ {b.locations[k], b.locations[l]} \subseteq {"aws-east", "aws-west"}
IsNew(phase) == phase \in {"", "New"}
PatchedPhases(call) == [k \in DOMAIN call.patched |-> call.patched[k].phase]
PhaseChains ==
    { << >>, << "FailedValidation" >>, << "InProgress" >>,
      << "InProgress", "Completed" >>, << "InProgress", "Failed" >> }

\* C36: a processBackup call that finds a phase other than empty or New patches
\* nothing, leaves the tracker alone, does not run the backup and returns nil; the
\* phases a call writes are FailedValidation, or InProgress followed by Completed or
\* Failed, and with one controller instance the stored phase moves along the same
\* chain from New; a Backup that cannot pass validation is patched to
\* FailedValidation and not run; a call whose first patch fails returns the error
\* and does not run the backup.
C36_OnlyNewProcessed ==
    /\ \A i \in bc.instances :
          LET me == bc.inst[i]
              call == me.call
          IN /\ (call.seen # "none" /\ ~IsNew(call.seen)) =>
                   /\ me.pc = "returned" /\ call.ret = "nil"
                   /\ call.patched = << >> /\ ~call.ran /\ ~call.tracked
                   /\ ~me.tracker /\ me.backed = 0
             /\ PatchedPhases(call) \in PhaseChains
             /\ Len(call.patched) = 2 => call.patched[1].ok /\ call.ran
             /\ call.ran => Len(call.patched) >= 1 /\ call.patched[1].ok
             /\ (IsNew(call.seen) /\ InvalidBackup(me.original)) =>
                   /\ ~call.ran /\ ~call.tracked /\ me.backed = 0
                   /\ PatchedPhases(call) = << "FailedValidation" >> \/ me.pc = "patching"
                   /\ me.pc = "returned" => bc.api.phase = "FailedValidation"
             /\ (IsNew(call.seen) /\ ~InvalidBackup(me.original) /\ call.patched # << >>) =>
                   call.patched[1].phase = "InProgress"
             /\ (call.patched # << >> /\ ~call.patched[1].ok) =>
                   /\ call.ret = "err" /\ me.pc = "queued"
                   /\ Len(call.patched) = 1 /\ ~call.ran /\ ~call.tracked
    /\ bc.instances = {1} =>
          /\ SubSeq(bc.phases, 2, Len(bc.phases)) \in PhaseChains
          /\ Len(bc.phases) > 1 => IsNew(bc.phases[1])
C36_Witness ==
    /\ bc.instances = {1, 2}
    /\ bc.inst[1].call.seen = "InProgress" /\ bc.inst[1].pc = "returned"
    /\ bc.inst[2].pc = "running"

\* the instances that have called the backupper
Runners == { i \in bc.instances : bc.inst[i].backed > 0 }

\* C37: of the controller instances that process one Backup, at most one runs it.
C37_AtMostOneRuns == Cardinality(Runners) <= 1

\* instance i has patched the Backup to InProgress and not returned yet
InProgressBy(i) == i \in bc.instances /\ bc.inst[i].pc \in {"running", "final"}
\* the final patch of instance i has been applied
FinalBy(i) ==
    /\ i \in bc.instances /\ bc.inst[i].pc = "returned"
    /\ Len(bc.inst[i].call.patched) = 2 /\ bc.inst[i].call.patched[2].ok
    /\ bc.inst[i].call.patched[2].phase = (IF bc.inst[i].err THEN "Failed" ELSE "Completed")

\* C38: an instance that has patched the Backup to InProgress eventually patches it
\* to Completed, when runBackup returned no error, or to Failed, when it returned one.
C38_InProgressEnds == \A i \in 1..MaxInstances : InProgressBy(i) ~> FinalBy(i)

\* C39: the Backup is in the tracker of an instance exactly while the processBackup
\* call of that instance is between its successful patch to InProgress and its
\* return; a call adds it only for a Backup it found new and valid, after that
\* patch, and has removed it when it returns, whether the backup succeeded or
\* failed and whether or not the final patch was applied.
C39_TrackedWhileRunning ==
    \A i \in bc.instances :
        LET me == bc.inst[i]
            call == me.call
        IN /\ me.tracker <=> me.pc \in {"running", "final"}
           /\ me.tracker => call.tracked
           /\ call.tracked =>
                 /\ IsNew(call.seen) /\ ~InvalidBackup(me.original)
                 /\ call.patched[1] = [phase |-> "InProgress", ok |-> TRUE]
           /\ (me.pc = "returned" /\ call.tracked) =>
                 /\ ~me.tracker /\ call.ran /\ Len(call.patched) = 2
C39_Witness ==
    \E i \in bc.instances :
        /\ bc.inst[i].pc = "returned" /\ bc.inst[i].call.tracked /\ ~bc.inst[i].tracker
        /\ bc.inst[i].err /\ ~bc.inst[i].call.patched[2].ok

ProviderOf(name) == IF name = "gcp-1" THEN "gcp" ELSE "aws"
Specified == Range(bc.itm.backup.locations)
Resolved == Range(bc.out.itm.backup.locations)
BadLocations ==
    \/ \E n \in Specified : n \notin {"aws-east", "aws-west", "gcp-1"}
    \/ \E n, m \in Specified : n # m /\ ProviderOf(n) = ProviderOf(m)

\* C40: when every specified snapshot location exists and no two of them belong to
\* one provider, defaultAndValidateSnapshotLocations returns no error and leaves in
\* the request exactly one location name per provider, for the providers of the
\* specified locations and the default providers, the specified location where there
\* is one and the default otherwise; in any other case it returns validation errors
\* and leaves the request as it was.
C40_OneLocationPerProvider ==
    bc.done =>
        IF BadLocations
        THEN /\ Len(bc.out.errors) > 0
             /\ bc.out.itm = bc.itm
        ELSE /\ bc.out.errors = << >>
             /\ Len(bc.out.itm.backup.locations) = Cardinality(Resolved)
             /\ \A n, m \in Resolved : ProviderOf(n) = ProviderOf(m) => n = m
             /\ { ProviderOf(n) : n \in Resolved } =
                   { ProviderOf(n) : n \in Specified } \cup DOMAIN bc.defaults
             /\ Specified \subseteq Resolved
             /\ \A n \in Resolved \ Specified : bc.defaults[ProviderOf(n)] = n
             /\ bc.out.itm.snapshotLocations = bc.out.itm.backup.locations
C40_Witness ==
    /\ bc.done /\ bc.itm.backup.locations = << "aws-west", "aws-west" >>
    /\ DOMAIN bc.defaults = {"aws", "gcp"} /\ bc.defaults["aws"] = "aws-east"
    /\ bc.out.itm.backup.locations = << "gcp-1", "aws-west" >>
====
